---- MODULE Spec2Model ----
(***************************************************************************)
(* Ledger / budget-aggregate model of Savior_Be.                           *)
(*                                                                         *)
(* The committed contents of the two PostgreSQL tables `transaksi` and     *)
(* `budgets` are the shared state.  Every handler exists twice:            *)
(*   - as a function of the database (create_transaksi(db, r), ...): the   *)
(*     handler run alone from its first line to its last;                  *)
(*   - as a chain of steps, one per SQL statement, that requests served    *)
(*     by different workers interleave (read committed isolation, row      *)
(*     locks held until commit).                                           *)
(***************************************************************************)
EXTENDS Integers, Sequences, FiniteSets, TLC

VARIABLES
    transaksi,   \* committed rows of table transaksi
    budgets,     \* committed rows of table budgets
    seqT,        \* next value of transaksi.id (serial)
    seqB,        \* next value of budgets.id (serial)
    pc,          \* per worker: where its request stands
    req,         \* per worker: the request it serves (None when idle)
    resp,        \* per worker: HTTP status of the finished request (0: none yet)
    body,        \* per worker: the data of the response to a read request (None: none)
    old,         \* per worker: the row read before the unit of work (old_transaksi, existing_budget)
    upd,         \* per worker: the row returned by RETURNING * (updated_transaksi, new_transaksi)
    wT,          \* per worker: uncommitted writes to transaksi  [del: ids, add: rows]
    wB,          \* per worker: uncommitted writes to budgets    [del: ids, add: rows]
    served,      \* number of requests accepted for service so far
    pristine,    \* ids of budgets created over an empty (user, category) ledger and never edited since
    base         \* database as it was when the requests now in flight began

vars == <<transaksi, budgets, seqT, seqB, pc, req, resp, body, old, upd, wT, wB, served, pristine, base>>

-----------------------------------------------------------------------------
(* Bounds of the model *)

MaxRequests == 4      \* requests served in one run, one at a time
MaxConcurrent == 2    \* requests served in one run of the concurrent workers

-----------------------------------------------------------------------------
(* Option<T>: None is <<>>, Some(x) is <<x>> *)

None == <<>>
Some(x) == <<x>>
IsSome(o) == o # <<>>
Coalesce(o, d) == IF o # <<>> THEN o[1] ELSE d
Greatest(a, b) == IF a >= b THEN a ELSE b

OK == 200
BAD_REQUEST == 400
NOT_FOUND == 404
CONFLICT == 409
INTERNAL_SERVER_ERROR == 500

Users == {"u1", "u2"}
Categories == {1, 2}          \* ids present in table categories
Procs == {"p1", "p2"}

-----------------------------------------------------------------------------
(* str::trim on a description, a sequence of characters *)

RECURSIVE TrimStart(_)
TrimStart(s) == IF s # <<>> /\ Head(s) = " " THEN TrimStart(Tail(s)) ELSE s

RECURSIVE TrimEnd(_)
TrimEnd(s) == IF s # <<>> /\ s[Len(s)] = " " THEN TrimEnd(SubSeq(s, 1, Len(s) - 1)) ELSE s

Trim(s) == TrimEnd(TrimStart(s))

(* NaiveDate::parse_from_str(s, "%Y-%m-%d"): the text is modelled by its three
   numeric fields <<y, m, d>>; the parse succeeds on a calendar date only *)

IsLeap(y) == (y % 4 = 0 /\ y % 100 # 0) \/ y % 400 = 0

DaysInMonth(y, m) ==
    IF m = 2 THEN (IF IsLeap(y) THEN 29 ELSE 28)
    ELSE IF m \in {4, 6, 9, 11} THEN 30 ELSE 31

ParseDate(s) ==
    IF s[2] \in 1..12 /\ s[3] >= 1 /\ s[3] <= DaysInMonth(s[1], s[2])
    THEN Some([year |-> s[1], month |-> s[2], day |-> s[3]])
    ELSE None

-----------------------------------------------------------------------------
(* SQL statements as functions of a table *)

RECURSIVE SumJumlah(_)
SumJumlah(T) ==
    IF T = {} THEN 0
    ELSE LET t == CHOOSE x \in T : TRUE IN t.jumlah + SumJumlah(T \ {t})

\* SelectTransaksi without the condition on user_id
SelectTransaksiAnyUser(T, id, user) == {t \in T : t.id = id}

\* SELECT * FROM transaksi WHERE id = $1 AND user_id = $2
SelectTransaksi(T, id, user) == {t \in T : t.id = id /\ t.user_id = user}

\* SELECT EXISTS(SELECT 1 FROM categories WHERE id = $1)
CategoryExists(k) == k \in Categories

\* SELECT * FROM budgets WHERE user_id = $1 AND kategori_id = $2
SelectBudgetFor(B, user, kat) == {b \in B : b.user_id = user /\ b.kategori_id = kat}

\* SELECT * FROM budgets WHERE id = $1 AND user_id = $2
SelectBudget(B, id, user) == {b \in B : b.id = id /\ b.user_id = user}

\* BudgetAdd without the condition on user_id
BudgetAddAnyUser(B, amt, user, kat) ==
    {IF b.kategori_id = kat
        THEN [b EXCEPT !.spent = Some(Coalesce(b.spent, 0) + amt)]
        ELSE b : b \in B}

\* UPDATE budgets SET spent = COALESCE(spent, 0) + $1 WHERE user_id = $2 AND kategori_id = $3
BudgetAdd(B, amt, user, kat) ==
    {IF b.user_id = user /\ b.kategori_id = kat
        THEN [b EXCEPT !.spent = Some(Coalesce(b.spent, 0) + amt)]
        ELSE b : b \in B}

\* UPDATE budgets SET spent = GREATEST(COALESCE(spent, 0) - $1, 0) WHERE user_id = $2 AND kategori_id = $3
BudgetSubFloor(B, amt, user, kat) ==
    {IF b.user_id = user /\ b.kategori_id = kat
        THEN [b EXCEPT !.spent = Some(Greatest(Coalesce(b.spent, 0) - amt, 0))]
        ELSE b : b \in B}

\* the row INSERT INTO transaksi (...) VALUES ($1, $2, $3, $4, $5) RETURNING * yields
NewTransaksi(id, user, payload) ==
    [id |-> id, user_id |-> user, kategori_id |-> payload.kategori_id,
     jumlah |-> payload.jumlah, deskripsi |-> Trim(payload.deskripsi),
     tanggal |-> ParseDate(payload.tanggal)[1]]

\* MergeTransaksi with a supplied date ignored
MergeTransaksiKeepsDate(t, payload) ==
    [t EXCEPT !.kategori_id = Coalesce(payload.kategori_id, t.kategori_id),
              !.jumlah = Coalesce(payload.jumlah, t.jumlah),
              !.deskripsi = IF IsSome(payload.deskripsi) THEN Trim(payload.deskripsi[1])
                            ELSE t.deskripsi]

\* UPDATE transaksi SET kategori_id = COALESCE($1, kategori_id), ... applied to one row
MergeTransaksi(t, payload) ==
    [t EXCEPT !.kategori_id = Coalesce(payload.kategori_id, t.kategori_id),
              !.jumlah = Coalesce(payload.jumlah, t.jumlah),
              !.deskripsi = IF IsSome(payload.deskripsi) THEN Trim(payload.deskripsi[1])
                            ELSE t.deskripsi,
              !.tanggal = IF IsSome(payload.tanggal) THEN ParseDate(payload.tanggal[1])[1]
                          ELSE t.tanggal]

\* UPDATE transaksi SET ... WHERE id = $5
UpdateTransaksiRows(T, id, payload) ==
    {IF t.id = id THEN MergeTransaksi(t, payload) ELSE t : t \in T}

\* DELETE FROM transaksi WHERE id = $1
DeleteTransaksiRows(T, id) == {t \in T : t.id # id}

\* update_transaksi: is the supplied category another one than the row's
CategoryChanged(payload, oldT) ==
    IsSome(payload.kategori_id) /\ payload.kategori_id[1] # oldT.kategori_id

\* ReconcileBudgets with the old amount, not the updated one, added to the new category
ReconcileBudgetsOldAmount(B, user, payload, oldT, newT) ==
    IF CategoryChanged(payload, oldT)
    THEN BudgetAdd(BudgetSubFloor(B, oldT.jumlah, user, oldT.kategori_id),
                   oldT.jumlah, user, payload.kategori_id[1])
    ELSE BudgetAdd(B, newT.jumlah - oldT.jumlah, user, oldT.kategori_id)

\* ReconcileBudgets with the updated amount, not the difference, added in the same category
ReconcileBudgetsNewAmount(B, user, payload, oldT, newT) ==
    IF CategoryChanged(payload, oldT)
    THEN BudgetAdd(BudgetSubFloor(B, oldT.jumlah, user, oldT.kategori_id),
                   newT.jumlah, user, payload.kategori_id[1])
    ELSE BudgetAdd(B, newT.jumlah, user, oldT.kategori_id)

\* the budget statements update_transaksi runs after the row update
ReconcileBudgets(B, user, payload, oldT, newT) ==
    IF CategoryChanged(payload, oldT)
    THEN BudgetAdd(BudgetSubFloor(B, oldT.jumlah, user, oldT.kategori_id),
                   newT.jumlah, user, payload.kategori_id[1])
    ELSE BudgetAdd(B, newT.jumlah - oldT.jumlah, user, oldT.kategori_id)

\* column default of budgets.spent
DefaultSpent == Some(0)

\* the row INSERT INTO budgets (user_id, kategori_id, amount) VALUES ($1, $2, $3) RETURNING * yields
NewBudget(id, user, payload) ==
    [id |-> id, user_id |-> user, kategori_id |-> payload.kategori_id,
     amount |-> payload.amount, spent |-> DefaultSpent]

\* UPDATE budgets SET amount = COALESCE($1, amount), spent = COALESCE($2, spent) WHERE id = $3
UpdateBudgetRows(B, id, payload) ==
    {IF b.id = id
        THEN [b EXCEPT !.amount = Coalesce(payload.amount, b.amount),
                       !.spent = IF IsSome(payload.spent) THEN payload.spent ELSE b.spent]
        ELSE b : b \in B}

\* DELETE FROM budgets WHERE id = $1
DeleteBudgetRows(B, id) == {b \in B : b.id # id}

\* the unique key of budgets on (user_id, kategori_id)
BudgetKeyTaken(B, user, kat) == SelectBudgetFor(B, user, kat) # {}

-----------------------------------------------------------------------------
(* The handlers, each run alone on database db with request r:
   [db: the database after, status: the HTTP status] *)

Out(db, status) == [db |-> db, status |-> status]

\* create_transaksi with the amount 0 let through
create_transaksi_AcceptsZero(db, r) ==
    LET payload == r.payload IN
    IF payload.jumlah < 0 THEN Out(db, BAD_REQUEST)
    ELSE IF Trim(payload.deskripsi) = <<>> THEN Out(db, BAD_REQUEST)
    ELSE IF ParseDate(payload.tanggal) = None THEN Out(db, BAD_REQUEST)
    ELSE IF ~CategoryExists(payload.kategori_id) THEN Out(db, BAD_REQUEST)
    ELSE Out([db EXCEPT !.transaksi = @ \cup {NewTransaksi(db.seqT, r.user_id, payload)},
                        !.seqT = @ + 1,
                        !.budgets = BudgetAdd(@, payload.jumlah, r.user_id, payload.kategori_id)],
             OK)

\* create_transaksi without its budget statement
create_transaksi_NoBudget(db, r) ==
    LET payload == r.payload IN
    IF payload.jumlah <= 0 THEN Out(db, BAD_REQUEST)
    ELSE IF Trim(payload.deskripsi) = <<>> THEN Out(db, BAD_REQUEST)
    ELSE IF ParseDate(payload.tanggal) = None THEN Out(db, BAD_REQUEST)
    ELSE IF ~CategoryExists(payload.kategori_id) THEN Out(db, BAD_REQUEST)
    ELSE Out([db EXCEPT !.transaksi = @ \cup {NewTransaksi(db.seqT, r.user_id, payload)},
                        !.seqT = @ + 1],
             OK)

create_transaksi(db, r) ==
    LET payload == r.payload IN
    IF payload.jumlah <= 0 THEN Out(db, BAD_REQUEST)
    ELSE IF Trim(payload.deskripsi) = <<>> THEN Out(db, BAD_REQUEST)
    ELSE IF ParseDate(payload.tanggal) = None THEN Out(db, BAD_REQUEST)
    ELSE IF ~CategoryExists(payload.kategori_id) THEN Out(db, BAD_REQUEST)
    ELSE Out([db EXCEPT !.transaksi = @ \cup {NewTransaksi(db.seqT, r.user_id, payload)},
                        !.seqT = @ + 1,
                        !.budgets = BudgetAdd(@, payload.jumlah, r.user_id, payload.kategori_id)],
             OK)

update_transaksi(db, r) ==
    LET payload == r.payload
        existing_transaksi == SelectTransaksi(db.transaksi, r.id, r.user_id)
    IN
    IF existing_transaksi = {} THEN Out(db, NOT_FOUND)
    ELSE IF IsSome(payload.tanggal) /\ ParseDate(payload.tanggal[1]) = None
         THEN Out(db, BAD_REQUEST)
    ELSE IF IsSome(payload.kategori_id) /\ ~CategoryExists(payload.kategori_id[1])
         THEN Out(db, BAD_REQUEST)
    ELSE LET old_transaksi == CHOOSE t \in existing_transaksi : TRUE
             updated_transaksi == MergeTransaksi(old_transaksi, payload)
         IN  Out([db EXCEPT !.transaksi = UpdateTransaksiRows(@, r.id, payload),
                            !.budgets = ReconcileBudgets(@, r.user_id, payload,
                                                         old_transaksi, updated_transaksi)],
                 OK)

\* delete_transaksi with the amount subtracted without the floor at 0
delete_transaksi_NoFloor(db, r) ==
    LET existing_transaksi == SelectTransaksi(db.transaksi, r.id, r.user_id) IN
    IF existing_transaksi = {} THEN Out(db, NOT_FOUND)
    ELSE LET t == CHOOSE x \in existing_transaksi : TRUE
         IN  Out([db EXCEPT !.transaksi = DeleteTransaksiRows(@, r.id),
                            !.budgets = BudgetAdd(@, 0 - t.jumlah, r.user_id, t.kategori_id)],
                 OK)

delete_transaksi(db, r) ==
    LET existing_transaksi == SelectTransaksi(db.transaksi, r.id, r.user_id) IN
    IF existing_transaksi = {} THEN Out(db, NOT_FOUND)
    ELSE LET t == CHOOSE x \in existing_transaksi : TRUE
         IN  Out([db EXCEPT !.transaksi = DeleteTransaksiRows(@, r.id),
                            !.budgets = BudgetSubFloor(@, t.jumlah, r.user_id, t.kategori_id)],
                 OK)

create_budget(db, r) ==
    LET payload == r.payload IN
    IF payload.amount <= 0 THEN Out(db, BAD_REQUEST)
    ELSE IF ~CategoryExists(payload.kategori_id) THEN Out(db, BAD_REQUEST)
    ELSE IF SelectBudgetFor(db.budgets, r.user_id, payload.kategori_id) # {}
         THEN Out(db, CONFLICT)
    ELSE Out([db EXCEPT !.budgets = @ \cup {NewBudget(db.seqB, r.user_id, payload)},
                        !.seqB = @ + 1],
             OK)

update_budget(db, r) ==
    IF SelectBudget(db.budgets, r.id, r.user_id) = {} THEN Out(db, NOT_FOUND)
    ELSE Out([db EXCEPT !.budgets = UpdateBudgetRows(@, r.id, r.payload)], OK)

delete_budget(db, r) ==
    IF SelectBudget(db.budgets, r.id, r.user_id) = {} THEN Out(db, NOT_FOUND)
    ELSE Out([db EXCEPT !.budgets = DeleteBudgetRows(@, r.id)], OK)

Handle(db, r) ==
    CASE r.op = "create_transaksi" -> create_transaksi(db, r)
      [] r.op = "update_transaksi" -> update_transaksi(db, r)
      [] r.op = "delete_transaksi" -> delete_transaksi(db, r)
      [] r.op = "create_budget" -> create_budget(db, r)
      [] r.op = "update_budget" -> update_budget(db, r)
      [] r.op = "delete_budget" -> delete_budget(db, r)

-----------------------------------------------------------------------------
(* Requests *)

NoReq == [op |-> "none"]
NoWrites == [del |-> {}, add |-> {}]

ReqCreateTransaksi(U, K, J, D, T) ==
    [op : {"create_transaksi"}, user_id : U,
     payload : [kategori_id : K, jumlah : J, deskripsi : D, tanggal : T]]

ReqUpdateTransaksi(U, I, K, J, D, T) ==
    [op : {"update_transaksi"}, user_id : U, id : I,
     payload : [kategori_id : K, jumlah : J, deskripsi : D, tanggal : T]]

ReqDeleteTransaksi(U, I) == [op : {"delete_transaksi"}, user_id : U, id : I]

ReqCreateBudget(U, K, A) ==
    [op : {"create_budget"}, user_id : U, payload : [kategori_id : K, amount : A]]

ReqUpdateBudget(U, I, A, S) ==
    [op : {"update_budget"}, user_id : U, id : I, payload : [amount : A, spent : S]]

ReqDeleteBudget(U, I) == [op : {"delete_budget"}, user_id : U, id : I]

Feb29 == <<2024, 2, 29>>      \* "2024-02-29"
Mar01 == <<2024, 3, 1>>       \* "2024-03-01"
Feb30 == <<2024, 2, 30>>      \* "2024-02-30", no calendar date

\* payloads of update_transaksi: the fields left out are None
Patch(K, J, D, T) == [kategori_id : K, jumlah : J, deskripsi : D, tanggal : T]

\* ids a request may name: those of the stored rows and the next, unused one
TransaksiIds(db) == {t.id : t \in db.transaksi} \cup {db.seqT}
BudgetIds(db) == {b.id : b \in db.budgets} \cup {db.seqB}

\* the requests of the one-at-a-time specification
Requests(db) ==
    ReqCreateTransaksi({"u1"}, {1, 2}, {1, 2}, {<<" ", "x">>}, {Feb29})
    \cup ReqCreateTransaksi({"u1"}, {3}, {1}, {<<" ", "x">>}, {Feb29})
    \cup ReqCreateTransaksi({"u1"}, {1}, {-1, 0}, {<<" ", "x">>}, {Feb29})
    \cup ReqCreateTransaksi({"u1"}, {1}, {1}, {<<" ">>}, {Feb29})
    \cup ReqCreateTransaksi({"u1"}, {1}, {1}, {<<" ", "x">>}, {Feb30})
    \cup [op : {"update_transaksi"}, user_id : {"u1"}, id : TransaksiIds(db),
          payload : Patch({None, Some(1), Some(2)}, {None, Some(-1), Some(2)}, {None}, {None})
                    \cup Patch({None}, {None}, {Some(<<"y", " ">>)}, {None})
                    \cup Patch({None}, {None}, {None}, {Some(Mar01), Some(Feb30)})
                    \cup Patch({Some(3)}, {None}, {None}, {None})
                    \cup Patch({None}, {Some(0)}, {None}, {None})]
    \cup ReqDeleteTransaksi({"u1"}, TransaksiIds(db))
    \cup ReqUpdateTransaksi({"u2"}, TransaksiIds(db), {None}, {Some(2)}, {None}, {None})
    \cup ReqDeleteTransaksi({"u2"}, TransaksiIds(db))
    \cup ReqCreateBudget({"u1"}, {1, 2}, {5})
    \cup ReqCreateBudget({"u1"}, {3}, {5})
    \cup ReqCreateBudget({"u1"}, {1}, {0})
    \cup ReqUpdateBudget({"u1"}, BudgetIds(db), {None}, {None, Some(-1)})
    \cup ReqDeleteBudget({"u1"}, BudgetIds(db))

-----------------------------------------------------------------------------
(* State *)

DB == [transaksi |-> transaksi, budgets |-> budgets, seqT |-> seqT, seqB |-> seqB]

EmptyDB == [transaksi |-> {}, budgets |-> {}, seqT |-> 1, seqB |-> 1]

InitWith(db, P) ==
    /\ transaksi = db.transaksi
    /\ budgets = db.budgets
    /\ seqT = db.seqT
    /\ seqB = db.seqB
    /\ pc = [p \in Procs |-> "idle"]
    /\ req = [p \in Procs |-> NoReq]
    /\ resp = [p \in Procs |-> 0]
    /\ body = [p \in Procs |-> None]
    /\ old = [p \in Procs |-> None]
    /\ upd = [p \in Procs |-> None]
    /\ wT = [p \in Procs |-> NoWrites]
    /\ wB = [p \in Procs |-> NoWrites]
    /\ served = 0
    /\ pristine = P
    /\ base = db

Init == InitWith(EmptyDB, {})

Quiet == \A p \in Procs : pc[p] = "idle"
Settled == \A p \in Procs : pc[p] \in {"idle", "done"}

\* the budgets that were created over an empty (user, category) ledger and not edited since
PristineAfter(P, db, r, status) ==
    IF status # OK THEN P
    ELSE IF r.op = "create_budget"
         THEN IF {t \in db.transaksi : t.user_id = r.user_id
                                       /\ t.kategori_id = r.payload.kategori_id} = {}
              THEN P \cup {db.seqB} ELSE P
    ELSE IF r.op \in {"update_budget", "delete_budget"} THEN P \ {r.id}
    ELSE P

-----------------------------------------------------------------------------
(* One request at a time: each handler is one action *)

Serve(p, r) ==
    LET out == Handle(DB, r) IN
    /\ Quiet
    /\ served < MaxRequests
    /\ served' = served + 1
    /\ transaksi' = out.db.transaksi
    /\ budgets' = out.db.budgets
    /\ seqT' = out.db.seqT
    /\ seqB' = out.db.seqB
    /\ pc' = [pc EXCEPT ![p] = "done"]
    /\ req' = [req EXCEPT ![p] = r]
    /\ resp' = [resp EXCEPT ![p] = out.status]
    /\ body' = [body EXCEPT ![p] = None]
    /\ pristine' = PristineAfter(pristine, DB, r, out.status)
    /\ base' = DB
    /\ UNCHANGED <<old, upd, wT, wB>>

CreateTransaksi(p) == \E r \in Requests(DB) : r.op = "create_transaksi" /\ Serve(p, r)
UpdateTransaksi(p) == \E r \in Requests(DB) : r.op = "update_transaksi" /\ Serve(p, r)
DeleteTransaksi(p) == \E r \in Requests(DB) : r.op = "delete_transaksi" /\ Serve(p, r)
CreateBudget(p) == \E r \in Requests(DB) : r.op = "create_budget" /\ Serve(p, r)
UpdateBudget(p) == \E r \in Requests(DB) : r.op = "update_budget" /\ Serve(p, r)
DeleteBudget(p) == \E r \in Requests(DB) : r.op = "delete_budget" /\ Serve(p, r)

\* the responses are sent: the workers are free again
Respond ==
    /\ Settled
    /\ ~Quiet
    /\ pc' = [p \in Procs |-> "idle"]
    /\ req' = [p \in Procs |-> NoReq]
    /\ resp' = [p \in Procs |-> 0]
    /\ body' = [p \in Procs |-> None]
    /\ base' = DB
    /\ UNCHANGED <<transaksi, budgets, seqT, seqB, old, upd, wT, wB, served, pristine>>

Next ==
    \/ CreateTransaksi("p1")
    \/ UpdateTransaksi("p1")
    \/ DeleteTransaksi("p1")
    \/ CreateBudget("p1")
    \/ UpdateBudget("p1")
    \/ DeleteBudget("p1")
    \/ Respond

Spec == Init /\ [][Next]_vars

-----------------------------------------------------------------------------
(* Concurrent workers: one action per SQL statement.

   PostgreSQL, read committed: a statement sees the committed rows and the
   writes of its own transaction; a row written by a transaction stays locked
   until that transaction ends, and a statement that has to write a locked row
   waits for the lock.  Statements run on the pool (&db) commit at once.      *)

\* the requests of the concurrent specification
ConcRequests(db) ==
    ReqCreateTransaksi({"u1"}, {1, 2}, {1}, {<<"x">>}, {Feb29})
    \cup ReqCreateTransaksi({"u1"}, {1}, {0}, {<<"x">>}, {Feb29})
    \cup [op : {"update_transaksi"}, user_id : {"u1"}, id : TransaksiIds(db),
          payload : Patch({None, Some(1), Some(2)}, {None, Some(2)}, {None}, {None})]
    \cup ReqDeleteTransaksi({"u1"}, TransaksiIds(db))
    \cup ReqCreateBudget({"u1"}, {1, 2}, {5})

\* what transaction p sees of a table
View(table, w) == {x \in table : x.id \notin w.del} \cup w.add

\* the table once the writes w are committed
Applied(table, w) == {x \in table : x.id \notin w.del} \cup w.add

\* transaction p writes rows M of its view as rows N
Written(w, M, N) == [del |-> w.del \cup {x.id : x \in M}, add |-> (w.add \ M) \cup N]

\* the committed rows the next statement of p has to lock
NeedT(p) ==
    IF pc[p] \in {"ut_update", "dt_delete"}
    THEN {t.id : t \in {x \in transaksi : x.id = req[p].id}}
    ELSE {}

NeedB(p) ==
    LET forPair(k) == {b.id : b \in SelectBudgetFor(budgets, req[p].user_id, k)} IN
    CASE pc[p] = "ct_budget" -> forPair(req[p].payload.kategori_id)
      [] pc[p] \in {"ut_bud_old", "ut_bud_same", "dt_budget"} -> forPair(old[p][1].kategori_id)
      [] pc[p] = "ut_bud_new" -> forPair(req[p].payload.kategori_id[1])
      [] OTHER -> {}

\* the workers whose open transaction holds a lock p's next statement needs
Blockers(p) ==
    {q \in Procs \ {p} : NeedT(p) \cap wT[q].del # {} \/ NeedB(p) \cap wB[q].del # {}}

\* the request of worker p ends: the response is built, an open transaction is
\* rolled back when it was not committed (sqlx rolls back on drop)
Finish(p, status) ==
    /\ pc' = [pc EXCEPT ![p] = "done"]
    /\ resp' = [resp EXCEPT ![p] = status]
    /\ body' = [body EXCEPT ![p] = None]
    /\ old' = [old EXCEPT ![p] = None]
    /\ upd' = [upd EXCEPT ![p] = None]
    /\ wT' = [wT EXCEPT ![p] = NoWrites]
    /\ wB' = [wB EXCEPT ![p] = NoWrites]

\* worker p takes request r
Accept(p, r) ==
    /\ pc[p] = "idle"
    /\ served < MaxConcurrent
    /\ served' = served + 1
    /\ req' = [req EXCEPT ![p] = r]
    /\ base' = IF Quiet THEN DB ELSE base

\* create_transaksi, up to db.begin()
CreateTransaksiBegin(p) ==
    \E r \in ConcRequests(DB) :
        /\ r.op = "create_transaksi"
        /\ Accept(p, r)
        /\ IF \/ r.payload.jumlah <= 0
              \/ Trim(r.payload.deskripsi) = <<>>
              \/ ParseDate(r.payload.tanggal) = None
              \/ ~CategoryExists(r.payload.kategori_id)
           THEN Finish(p, BAD_REQUEST)
           ELSE /\ pc' = [pc EXCEPT ![p] = "ct_insert"]
                /\ UNCHANGED <<resp, body, old, upd, wT, wB>>
        /\ UNCHANGED <<transaksi, budgets, seqT, seqB, pristine>>

\* CreateTransaksiInsert run on the pool: the row is committed at once
CreateTransaksiInsertOnPool(p) ==
    /\ pc[p] = "ct_insert"
    /\ LET new_transaksi == NewTransaksi(seqT, req[p].user_id, req[p].payload) IN
        /\ transaksi' = transaksi \cup {new_transaksi}
        /\ upd' = [upd EXCEPT ![p] = Some(new_transaksi)]
    /\ seqT' = seqT + 1
    /\ pc' = [pc EXCEPT ![p] = "ct_budget"]
    /\ UNCHANGED <<budgets, seqB, req, resp, body, old, wT, wB, served, pristine, base>>

\* INSERT INTO transaksi ... RETURNING *
CreateTransaksiInsert(p) ==
    /\ pc[p] = "ct_insert"
    /\ LET new_transaksi == NewTransaksi(seqT, req[p].user_id, req[p].payload) IN
        /\ wT' = [wT EXCEPT ![p] = Written(@, {}, {new_transaksi})]
        /\ upd' = [upd EXCEPT ![p] = Some(new_transaksi)]
    /\ seqT' = seqT + 1
    /\ pc' = [pc EXCEPT ![p] = "ct_budget"]
    /\ UNCHANGED <<transaksi, budgets, seqB, req, resp, body, old, wB, served, pristine, base>>

\* UPDATE budgets SET spent = COALESCE(spent, 0) + jumlah
CreateTransaksiBudget(p) ==
    /\ pc[p] = "ct_budget"
    /\ Blockers(p) = {}
    /\ LET r == req[p]
           M == SelectBudgetFor(View(budgets, wB[p]), r.user_id, r.payload.kategori_id)
       IN  wB' = [wB EXCEPT ![p] = Written(@, M,
                      BudgetAdd(M, r.payload.jumlah, r.user_id, r.payload.kategori_id))]
    /\ pc' = [pc EXCEPT ![p] = "commit"]
    /\ UNCHANGED <<transaksi, budgets, seqT, seqB, req, resp, body, old, upd, wT, served, pristine, base>>

\* update_transaksi, up to db.begin(): the row is read outside the transaction
UpdateTransaksiBegin(p) ==
    \E r \in ConcRequests(DB) :
        /\ r.op = "update_transaksi"
        /\ Accept(p, r)
        /\ LET existing_transaksi == SelectTransaksi(transaksi, r.id, r.user_id) IN
           IF existing_transaksi = {} THEN Finish(p, NOT_FOUND)
           ELSE IF \/ IsSome(r.payload.tanggal) /\ ParseDate(r.payload.tanggal[1]) = None
                   \/ IsSome(r.payload.kategori_id) /\ ~CategoryExists(r.payload.kategori_id[1])
                THEN Finish(p, BAD_REQUEST)
           ELSE /\ old' = [old EXCEPT ![p] = Some(CHOOSE t \in existing_transaksi : TRUE)]
                /\ pc' = [pc EXCEPT ![p] = "ut_update"]
                /\ UNCHANGED <<resp, body, upd, wT, wB>>
        /\ UNCHANGED <<transaksi, budgets, seqT, seqB, pristine>>

\* UPDATE transaksi SET ... WHERE id = $5 RETURNING *, fetch_one
UpdateTransaksiUpdate(p) ==
    /\ pc[p] = "ut_update"
    /\ Blockers(p) = {}
    /\ LET M == {t \in View(transaksi, wT[p]) : t.id = req[p].id} IN
       IF M = {}
       THEN /\ Finish(p, INTERNAL_SERVER_ERROR)
            /\ UNCHANGED <<transaksi, budgets, seqT, seqB, req, served, pristine, base>>
       ELSE LET updated_transaksi == MergeTransaksi(CHOOSE t \in M : TRUE, req[p].payload) IN
            /\ wT' = [wT EXCEPT ![p] = Written(@, M, {updated_transaksi})]
            /\ upd' = [upd EXCEPT ![p] = Some(updated_transaksi)]
            /\ pc' = [pc EXCEPT ![p] =
                        IF CategoryChanged(req[p].payload, old[p][1])
                        THEN "ut_bud_old" ELSE "ut_bud_same"]
            /\ UNCHANGED <<transaksi, budgets, seqT, seqB, req, resp, body, old, wB, served,
                           pristine, base>>

\* category changed: UPDATE budgets SET spent = GREATEST(COALESCE(spent, 0) - old.jumlah, 0)
UpdateTransaksiBudgetOld(p) ==
    /\ pc[p] = "ut_bud_old"
    /\ Blockers(p) = {}
    /\ LET old_transaksi == old[p][1]
           M == SelectBudgetFor(View(budgets, wB[p]), req[p].user_id, old_transaksi.kategori_id)
       IN  wB' = [wB EXCEPT ![p] = Written(@, M,
                      BudgetSubFloor(M, old_transaksi.jumlah, req[p].user_id,
                                     old_transaksi.kategori_id))]
    /\ pc' = [pc EXCEPT ![p] = "ut_bud_new"]
    /\ UNCHANGED <<transaksi, budgets, seqT, seqB, req, resp, body, old, upd, wT, served, pristine, base>>

\* category changed: UPDATE budgets SET spent = COALESCE(spent, 0) + updated.jumlah
UpdateTransaksiBudgetNew(p) ==
    /\ pc[p] = "ut_bud_new"
    /\ Blockers(p) = {}
    /\ LET new_kategori_id == req[p].payload.kategori_id[1]
           M == SelectBudgetFor(View(budgets, wB[p]), req[p].user_id, new_kategori_id)
       IN  wB' = [wB EXCEPT ![p] = Written(@, M,
                      BudgetAdd(M, upd[p][1].jumlah, req[p].user_id, new_kategori_id))]
    /\ pc' = [pc EXCEPT ![p] = "commit"]
    /\ UNCHANGED <<transaksi, budgets, seqT, seqB, req, resp, body, old, upd, wT, served, pristine, base>>

\* same category: UPDATE budgets SET spent = COALESCE(spent, 0) + jumlah_diff
UpdateTransaksiBudgetSame(p) ==
    /\ pc[p] = "ut_bud_same"
    /\ Blockers(p) = {}
    /\ LET old_transaksi == old[p][1]
           jumlah_diff == upd[p][1].jumlah - old_transaksi.jumlah
           M == SelectBudgetFor(View(budgets, wB[p]), req[p].user_id, old_transaksi.kategori_id)
       IN  wB' = [wB EXCEPT ![p] = Written(@, M,
                      BudgetAdd(M, jumlah_diff, req[p].user_id, old_transaksi.kategori_id))]
    /\ pc' = [pc EXCEPT ![p] = "commit"]
    /\ UNCHANGED <<transaksi, budgets, seqT, seqB, req, resp, body, old, upd, wT, served, pristine, base>>

\* delete_transaksi, up to db.begin(): the row is read outside the transaction
DeleteTransaksiBegin(p) ==
    \E r \in ConcRequests(DB) :
        /\ r.op = "delete_transaksi"
        /\ Accept(p, r)
        /\ LET existing_transaksi == SelectTransaksi(transaksi, r.id, r.user_id) IN
           IF existing_transaksi = {} THEN Finish(p, NOT_FOUND)
           ELSE /\ old' = [old EXCEPT ![p] = Some(CHOOSE t \in existing_transaksi : TRUE)]
                /\ pc' = [pc EXCEPT ![p] = "dt_delete"]
                /\ UNCHANGED <<resp, body, upd, wT, wB>>
        /\ UNCHANGED <<transaksi, budgets, seqT, seqB, pristine>>

\* DELETE FROM transaksi WHERE id = $1
DeleteTransaksiDelete(p) ==
    /\ pc[p] = "dt_delete"
    /\ Blockers(p) = {}
    /\ LET M == {t \in View(transaksi, wT[p]) : t.id = req[p].id} IN
       wT' = [wT EXCEPT ![p] = Written(@, M, {})]
    /\ pc' = [pc EXCEPT ![p] = "dt_budget"]
    /\ UNCHANGED <<transaksi, budgets, seqT, seqB, req, resp, body, old, upd, wB, served, pristine, base>>

\* UPDATE budgets SET spent = GREATEST(COALESCE(spent, 0) - transaksi.jumlah, 0)
DeleteTransaksiBudget(p) ==
    /\ pc[p] = "dt_budget"
    /\ Blockers(p) = {}
    /\ LET t == old[p][1]
           M == SelectBudgetFor(View(budgets, wB[p]), req[p].user_id, t.kategori_id)
       IN  wB' = [wB EXCEPT ![p] = Written(@, M,
                      BudgetSubFloor(M, t.jumlah, req[p].user_id, t.kategori_id))]
    /\ pc' = [pc EXCEPT ![p] = "commit"]
    /\ UNCHANGED <<transaksi, budgets, seqT, seqB, req, resp, body, old, upd, wT, served, pristine, base>>

\* tx.commit(): the writes of the unit of work become visible together
Commit(p) ==
    /\ pc[p] = "commit"
    /\ transaksi' = Applied(transaksi, wT[p])
    /\ budgets' = Applied(budgets, wB[p])
    /\ Finish(p, OK)
    /\ UNCHANGED <<seqT, seqB, req, served, pristine, base>>

\* CreateBudgetBegin without the check for an existing budget
CreateBudgetBeginUnchecked(p) ==
    \E r \in ConcRequests(DB) :
        /\ r.op = "create_budget"
        /\ Accept(p, r)
        /\ IF r.payload.amount <= 0 \/ ~CategoryExists(r.payload.kategori_id)
           THEN Finish(p, BAD_REQUEST)
           ELSE /\ pc' = [pc EXCEPT ![p] = "cb_insert"]
                /\ UNCHANGED <<resp, body, old, upd, wT, wB>>
        /\ UNCHANGED <<transaksi, budgets, seqT, seqB, pristine>>

\* create_budget, up to the INSERT: validation and the check for an existing budget
CreateBudgetBegin(p) ==
    \E r \in ConcRequests(DB) :
        /\ r.op = "create_budget"
        /\ Accept(p, r)
        /\ IF r.payload.amount <= 0 \/ ~CategoryExists(r.payload.kategori_id)
           THEN Finish(p, BAD_REQUEST)
           ELSE IF SelectBudgetFor(budgets, r.user_id, r.payload.kategori_id) # {}
           THEN Finish(p, CONFLICT)
           ELSE /\ pc' = [pc EXCEPT ![p] = "cb_insert"]
                /\ UNCHANGED <<resp, body, old, upd, wT, wB>>
        /\ UNCHANGED <<transaksi, budgets, seqT, seqB, pristine>>

\* INSERT INTO budgets (user_id, kategori_id, amount) ... RETURNING *, on the pool
CreateBudgetInsert(p) ==
    /\ pc[p] = "cb_insert"
    /\ seqB' = seqB + 1
    /\ IF BudgetKeyTaken(budgets, req[p].user_id, req[p].payload.kategori_id)
       THEN /\ Finish(p, INTERNAL_SERVER_ERROR)
            /\ UNCHANGED <<budgets, pristine>>
       ELSE /\ budgets' = budgets \cup {NewBudget(seqB, req[p].user_id, req[p].payload)}
            /\ pristine' = PristineAfter(pristine, DB, req[p], OK)
            /\ Finish(p, OK)
    /\ UNCHANGED <<transaksi, seqT, req, served, base>>

\* PersistenceError with the open transaction committed, not dropped
PersistenceErrorKeepsWrites(p) ==
    /\ pc[p] \notin {"idle", "done"}
    /\ transaksi' = Applied(transaksi, wT[p])
    /\ budgets' = Applied(budgets, wB[p])
    /\ Finish(p, INTERNAL_SERVER_ERROR)
    /\ UNCHANGED <<seqT, seqB, req, served, pristine, base>>

\* a statement or the commit of worker p fails: map_err(...)? returns the server
\* error and the transaction, if one is open, is dropped uncommitted
PersistenceError(p) ==
    /\ pc[p] \notin {"idle", "done"}
    /\ Finish(p, INTERNAL_SERVER_ERROR)
    /\ UNCHANGED <<transaksi, budgets, seqT, seqB, req, served, pristine, base>>

\* DeadlockDetected with PostgreSQL's deadlock detection off: the cycle is never broken
DeadlockUndetected(p) ==
    /\ FALSE
    /\ Finish(p, INTERNAL_SERVER_ERROR)
    /\ UNCHANGED <<transaksi, budgets, seqT, seqB, req, served, pristine, base>>

\* two transactions wait for each other's row lock: PostgreSQL aborts one of them
\* and its statement returns an error
DeadlockDetected(p) ==
    /\ \E q \in Blockers(p) : p \in Blockers(q)
    /\ Finish(p, INTERNAL_SERVER_ERROR)
    /\ UNCHANGED <<transaksi, budgets, seqT, seqB, req, served, pristine, base>>

NextConc ==
    \/ \E p \in Procs :
        \/ CreateTransaksiBegin(p)
        \/ CreateTransaksiInsert(p)
        \/ CreateTransaksiBudget(p)
        \/ UpdateTransaksiBegin(p)
        \/ UpdateTransaksiUpdate(p)
        \/ UpdateTransaksiBudgetOld(p)
        \/ UpdateTransaksiBudgetNew(p)
        \/ UpdateTransaksiBudgetSame(p)
        \/ DeleteTransaksiBegin(p)
        \/ DeleteTransaksiDelete(p)
        \/ DeleteTransaksiBudget(p)
        \/ Commit(p)
        \/ CreateBudgetBegin(p)
        \/ CreateBudgetInsert(p)
        \/ PersistenceError(p)
        \/ DeadlockDetected(p)
    \/ Respond

\* a database two budgets and two transactions old: what the requests
\* create_budget(1), create_budget(2), create_transaksi(1, 1), create_transaksi(2, 1)
\* of user u1 leave behind
SeedDB ==
    [transaksi |-> {NewTransaksi(k, "u1", [kategori_id |-> k, jumlah |-> 1,
                                           deskripsi |-> <<"x">>, tanggal |-> Feb29]) : k \in {1, 2}},
     budgets |-> {[NewBudget(k, "u1", [kategori_id |-> k, amount |-> 5])
                      EXCEPT !.spent = Some(1)] : k \in {1, 2}},
     seqT |-> 3, seqB |-> 3]

InitConc == InitWith(EmptyDB, {}) \/ InitWith(SeedDB, {1, 2})

SpecConc == InitConc /\ [][NextConc]_vars

\* what the runtime and the database do for a request in flight without waiting for
\* anything but a row lock: the next statement, the commit, the deadlock abort
Progress(p) ==
    \/ CreateTransaksiInsert(p)
    \/ CreateTransaksiBudget(p)
    \/ UpdateTransaksiUpdate(p)
    \/ UpdateTransaksiBudgetOld(p)
    \/ UpdateTransaksiBudgetNew(p)
    \/ UpdateTransaksiBudgetSame(p)
    \/ DeleteTransaksiDelete(p)
    \/ DeleteTransaksiBudget(p)
    \/ Commit(p)
    \/ CreateBudgetInsert(p)
    \/ DeadlockDetected(p)

\* the concurrent workers under fair scheduling: a request that can take its next
\* step is not left waiting forever (tokio polls every ready task, PostgreSQL runs
\* every statement whose locks are free)
SpecConcFair == SpecConc /\ \A p \in Procs : WF_vars(Progress(p))

-----------------------------------------------------------------------------
(* get_user_statistik: the statistics of a user over a window of dates *)

\* chrono::NaiveDate
Date(y, m, d) == [year |-> y, month |-> m, day |-> d]

\* NaiveDate::from_ymd_opt
from_ymd_opt(y, m, d) ==
    IF m \in 1..12 /\ d >= 1 /\ d <= DaysInMonth(y, m) THEN Some(Date(y, m, d)) ELSE None

\* date.format("%Y-%m-%d"): the text, by its three numeric fields
FormatDate(d) == <<d.year, d.month, d.day>>

\* date - chrono::Duration::days(1)
PrevDay(d) ==
    IF d.day > 1 THEN Date(d.year, d.month, d.day - 1)
    ELSE IF d.month > 1 THEN Date(d.year, d.month - 1, DaysInMonth(d.year, d.month - 1))
    ELSE Date(d.year - 1, 12, 31)

\* date - chrono::Duration::days(n)
RECURSIVE MinusDays(_, _)
MinusDays(d, n) == IF n = 0 THEN d ELSE MinusDays(PrevDay(d), n - 1)

RECURSIVE DaysBeforeMonth(_, _)
DaysBeforeMonth(y, m) ==
    IF m = 1 THEN 0 ELSE DaysBeforeMonth(y, m - 1) + DaysInMonth(y, m - 1)

\* the number of the day, counted from 0001-01-01 as day 1
num_days_from_ce(d) ==
    365 * (d.year - 1) + ((d.year - 1) \div 4) - ((d.year - 1) \div 100)
    + ((d.year - 1) \div 400) + DaysBeforeMonth(d.year, d.month) + d.day

\* (a - b).num_days()
num_days(a, b) == num_days_from_ce(a) - num_days_from_ce(b)

\* Some("daily"): (today, today)
DailyWindow(today) == [start |-> today, end |-> today]

\* WeeklyWindow reaching back 6 days only
WeeklyWindowSixDays(today) == [start |-> MinusDays(today, 6), end |-> today]

\* Some("weekly"): (today - 7 days, today)
WeeklyWindow(today) == [start |-> MinusDays(today, 7), end |-> today]

\* Some("monthly") and the default arm: the target month, up to today when it is
\* the current month and up to its last day when it is not; None when
\* from_ymd_opt(...).unwrap() panics
MonthlyWindow(today, query) ==
    LET current_date == today
        target_year == Coalesce(query.year, current_date.year)
        target_month == Coalesce(query.month, current_date.month)
        start == from_ymd_opt(target_year, target_month, 1)
        next_month == IF target_month = 12 THEN 1 ELSE target_month + 1
        next_year == IF target_month = 12 THEN target_year + 1 ELSE target_year
    IN  IF start = None THEN None
        ELSE IF target_year = current_date.year /\ target_month = current_date.month
             THEN Some([start |-> start[1], end |-> current_date])
        ELSE IF from_ymd_opt(next_year, next_month, 1) = None THEN None
        ELSE Some([start |-> start[1],
                   end |-> PrevDay(from_ymd_opt(next_year, next_month, 1)[1])])

\* match query.filter.as_deref()
ResolveWindow(today, query) ==
    IF query.filter = Some("daily") THEN Some(DailyWindow(today))
    ELSE IF query.filter = Some("weekly") THEN Some(WeeklyWindow(today))
    ELSE MonthlyWindow(today, query)

\* OverrideBound with the custom date ignored
OverrideBoundIgnored(custom, resolved) == resolved

\* final_start_date, final_end_date: a custom date that parses replaces the resolved one
OverrideBound(custom, resolved) ==
    IF IsSome(custom) /\ ParseDate(custom[1]) # None THEN ParseDate(custom[1])[1]
    ELSE resolved

\* ... FROM transaksi WHERE user_id = $1 AND tanggal >= $2 AND tanggal <= $3
InWindow(T, user, start, end) ==
    {t \in T : /\ t.user_id = user
               /\ num_days_from_ce(t.tanggal) >= num_days_from_ce(start)
               /\ num_days_from_ce(t.tanggal) <= num_days_from_ce(end)}

\* ROUND(a / b, 2) for b > 0, in hundredths: halves are rounded away from zero
RoundHundredths(a, b) ==
    IF a >= 0 THEN (2 * 100 * a + b) \div (2 * b)
    ELSE 0 - ((2 * 100 * (0 - a) + b) \div (2 * b))

\* CASE WHEN $4 > 0 THEN ROUND(sum * 100.0 / $4, 2) ELSE 0.0 END, in hundredths of a percent
Persentase(sum, total) == IF total > 0 THEN RoundHundredths(sum * 100, total) ELSE 0

\* one row of FROM categories c LEFT JOIN transaksi t ON ... GROUP BY c.id, c.nama;
\* the name of a category is modelled by its id
KategoriRow(T, user, start, end, total, c) ==
    LET sum == SumJumlah({t \in InWindow(T, user, start, end) : t.kategori_id = c})
    IN  [kategori_nama |-> c, total_pengeluaran |-> sum, persentase |-> Persentase(sum, total)]

RECURSIVE SeqOfSet(_)
SeqOfSet(S) ==
    IF S = {} THEN <<>>
    ELSE LET x == CHOOSE y \in S : TRUE IN <<x>> \o SeqOfSet(S \ {x})

\* ORDER BY total_pengeluaran DESC, c.nama ASC
KategoriBefore(a, b) ==
    \/ a.total_pengeluaran > b.total_pengeluaran
    \/ a.total_pengeluaran = b.total_pengeluaran /\ a.kategori_nama < b.kategori_nama

\* KategoriBreakdown with an inner join: only the categories with a row in the window
KategoriBreakdownInnerJoin(T, user, start, end, total) ==
    SortSeq(SeqOfSet({KategoriRow(T, user, start, end, total, c) :
                        c \in {t.kategori_id : t \in InWindow(T, user, start, end)}}),
            KategoriBefore)

\* pengeluaran_per_kategori
KategoriBreakdown(T, user, start, end, total) ==
    SortSeq(SeqOfSet({KategoriRow(T, user, start, end, total, c) : c \in Categories}),
            KategoriBefore)

\* RataRataHarian over end - start days, the last day of the window not counted
RataRataHarianExclusive(total, start, end) ==
    LET days_diff == num_days(end, start) IN
    IF days_diff > 0 THEN [num |-> total, den |-> days_diff] ELSE [num |-> 0, den |-> 1]

\* rata_rata_harian, as a fraction: total over the days of the window, 0.0 for a
\* window without days
RataRataHarian(total, start, end) ==
    LET days_diff == num_days(end, start) + 1 IN
    IF days_diff > 0 THEN [num |-> total, den |-> days_diff] ELSE [num |-> 0, den |-> 1]

\* get_user_statistik taking the total spend from the spent of the user's budgets
get_user_statistik_FromBudgets(db, r) ==
    LET window == ResolveWindow(r.now, r.query) IN
    IF window = None THEN [status |-> 0, body |-> None]
    ELSE LET final_start_date == OverrideBound(r.query.start_date, window[1].start)
             final_end_date == OverrideBound(r.query.end_date, window[1].end)
             rows == InWindow(db.transaksi, r.user_id, final_start_date, final_end_date)
             total_pengeluaran ==
                SumJumlah({[id |-> b.id, jumlah |-> Coalesce(b.spent, 0)] :
                             b \in {x \in db.budgets : x.user_id = r.user_id}})
         IN  [status |-> OK,
              body |-> Some(
                [pengeluaran_per_kategori |->
                    KategoriBreakdown(db.transaksi, r.user_id, final_start_date,
                                      final_end_date, total_pengeluaran),
                 ringkasan |->
                    [total_pengeluaran |-> total_pengeluaran,
                     rata_rata_harian |->
                        RataRataHarian(total_pengeluaran, final_start_date, final_end_date),
                     total_transaksi |-> Cardinality(rows)],
                 filter_applied |->
                    [start_date |-> FormatDate(final_start_date),
                     end_date |-> FormatDate(final_end_date)]])]

\* the handler, run on database db with request r at the clock r.now:
\* [status: the HTTP status, 0 when the handler panicked and no response was sent,
\*  body: the data of the response]
get_user_statistik(db, r) ==
    LET window == ResolveWindow(r.now, r.query) IN
    IF window = None THEN [status |-> 0, body |-> None]
    ELSE LET final_start_date == OverrideBound(r.query.start_date, window[1].start)
             final_end_date == OverrideBound(r.query.end_date, window[1].end)
             rows == InWindow(db.transaksi, r.user_id, final_start_date, final_end_date)
             total_pengeluaran == SumJumlah(rows)
         IN  [status |-> OK,
              body |-> Some(
                [pengeluaran_per_kategori |->
                    KategoriBreakdown(db.transaksi, r.user_id, final_start_date,
                                      final_end_date, total_pengeluaran),
                 ringkasan |->
                    [total_pengeluaran |-> total_pengeluaran,
                     rata_rata_harian |->
                        RataRataHarian(total_pengeluaran, final_start_date, final_end_date),
                     total_transaksi |-> Cardinality(rows)],
                 filter_applied |->
                    [start_date |-> FormatDate(final_start_date),
                     end_date |-> FormatDate(final_end_date)]])]

\* the clock, Local::now().naive_local().date(), at the time of a request
Todays == {Date(2024, 2, 29), Date(2024, 3, 5), Date(2025, 1, 3)}

\* StatistikQuery
StatQueries ==
    [filter : {None, Some("daily"), Some("weekly"), Some("monthly"), Some("yearly")},
     year : {None, Some(2024), Some(2025)},
     month : {None, Some(2), Some(3), Some(12), Some(13)},
     start_date : {None, Some(<<2024, 2, 28>>), Some(Feb30)},
     end_date : {None, Some(<<2024, 2, 27>>), Some(Mar01), Some(Feb30)}]

StatRequests ==
    [op : {"get_user_statistik"}, user_id : {"u1"}, now : Todays, query : StatQueries]

\* a stored row, as create_transaksi leaves it
StatRow(id, user, k, j, tanggal) ==
    NewTransaksi(id, user, [kategori_id |-> k, jumlah |-> j, deskripsi |-> <<"x">>,
                            tanggal |-> tanggal])

\* ledgers the statistics are asked over: none, rows of another user only, rows
\* of two categories around the ends of the windows
StatLedgers ==
    LET r1 == StatRow(1, "u1", 1, 3, <<2024, 2, 27>>)
        r2 == StatRow(2, "u1", 2, 1, Feb29)
        r3 == StatRow(3, "u1", 1, 2, <<2024, 3, 5>>)
        r4 == StatRow(4, "u2", 1, 7, Mar01)
        r5 == StatRow(5, "u1", 2, 4, <<2024, 12, 30>>)
    IN  {{}, {r4}, {r1, r2, r3}, {r1, r2, r3, r4, r5}}

InitStat ==
    \E L \in StatLedgers :
        InitWith([transaksi |-> L, budgets |-> {}, seqT |-> 6, seqB |-> 1], {})

GetUserStatistik(p) ==
    \E r \in StatRequests :
        LET out == get_user_statistik(DB, r) IN
        /\ Quiet
        /\ pc' = [pc EXCEPT ![p] = "done"]
        /\ req' = [req EXCEPT ![p] = r]
        /\ resp' = [resp EXCEPT ![p] = out.status]
        /\ body' = [body EXCEPT ![p] = out.body]
        /\ base' = DB
        /\ UNCHANGED <<transaksi, budgets, seqT, seqB, old, upd, wT, wB, served, pristine>>

NextStat ==
    \/ GetUserStatistik("p1")
    \/ Respond

SpecStat == InitStat /\ [][NextStat]_vars

-----------------------------------------------------------------------------
(* get_dashboard_data: the dashboard of a user at a date *)

\* the user id written into the handler
FallbackUser == "8787368b-3437-4440-9d99-0675386f1626"

\* the queries of the handler that can fail one by one; the seven of the loop
\* are named by its index i
DashboardQueries ==
    {"user_transaction_count", "total_hari_ini", "total_bulan_ini",
     "tertinggi_hari_ini", "tertinggi_bulan_ini", "terendah_hari_ini",
     "terendah_bulan_ini", "transaksi_terakhir"}

\* UnwrapOrZero that yields the value of a query that failed
UnwrapIgnoringFailure(failed, value) == value

\* fetch_one(&db).await.unwrap_or(0)
UnwrapOrZero(failed, value) == IF failed THEN 0 ELSE value

\* match ... { Ok(Some(value)) => value as i64, Ok(None) => 0, Err(e) => 0 }
SomeOrZero(failed, value) == IF failed \/ value = None THEN 0 ELSE value[1]

\* ... FROM transaksi WHERE user_id = $1
OfUser(T, user) == {t \in T : t.user_id = user}

\* ... FROM transaksi WHERE user_id = $1 AND tanggal = $2
OnDay(T, user, day) == {t \in T : t.user_id = user /\ t.tanggal = day}

\* SELECT MAX(jumlah): NULL over no rows
MaxJumlah(T) ==
    IF T = {} THEN None
    ELSE Some(CHOOSE m \in {t.jumlah : t \in T} : \A t \in T : t.jumlah <= m)

\* SELECT MIN(jumlah): NULL over no rows
MinJumlah(T) ==
    IF T = {} THEN None
    ELSE Some(CHOOSE m \in {t.jumlah : t \in T} : \A t \in T : m <= t.jumlah)

\* PositiveJumlah without the condition jumlah > 0
AnyJumlah(T) == T

\* ... AND jumlah > 0
PositiveJumlah(T) == {t \in T : t.jumlah > 0}

\* current_day.weekday(), 0 for Monday
Weekday(d) == (num_days_from_ce(d) - 1) % 7

\* day_name
DayName(d) == <<"Sen", "Sel", "Rab", "Kam", "Jum", "Sab", "Min">>[Weekday(d) + 1]

\* ChartDataPoint counting the days forward from today - 6 by 6 - i, newest first
ChartDataPointNewestFirst(T, user, today, i, failed) ==
    LET current_day == MinusDays(today, i) IN
    [hari |-> DayName(current_day),
     jumlah |-> UnwrapOrZero(failed, SumJumlah(OnDay(T, user, current_day)))]

\* ChartDataPoint of the loop's round i
ChartDataPoint(T, user, today, i, failed) ==
    LET current_day == MinusDays(today, 6 - i) IN
    [hari |-> DayName(current_day),
     jumlah |-> UnwrapOrZero(failed, SumJumlah(OnDay(T, user, current_day)))]

\* t.created_at: rows are stamped when they are inserted, in the order of their ids
created_at(t) == t.id

\* ORDER BY t.tanggal DESC, t.created_at DESC
RecentBefore(a, b) ==
    \/ num_days_from_ce(a.tanggal) > num_days_from_ce(b.tanggal)
    \/ a.tanggal = b.tanggal /\ created_at(a) > created_at(b)

\* SELECT t.id, t.deskripsi, t.jumlah, t.tanggal::text, COALESCE(c.nama, 'Tanpa Kategori')
\* FROM transaksi t LEFT JOIN categories c ON t.kategori_id = c.id; the name of a
\* category is modelled by its id, 'Tanpa Kategori' by None
TransaksiTerakhirRow(t) ==
    [id |-> t.id, deskripsi |-> t.deskripsi, jumlah |-> t.jumlah,
     tanggal |-> FormatDate(t.tanggal),
     kategori_nama |-> IF CategoryExists(t.kategori_id) THEN Some(t.kategori_id) ELSE None]

\* LIMIT 10
RecentLimit == 10

\* transaksi_terakhir; Vec::new() when the query failed
TransaksiTerakhir(T, user, failed) ==
    IF failed THEN <<>>
    ELSE LET sorted == SortSeq(SeqOfSet(OfUser(T, user)), RecentBefore)
             n == IF Len(sorted) < RecentLimit THEN Len(sorted) ELSE RecentLimit
         IN  [i \in 1..n |-> TransaksiTerakhirRow(sorted[i])]

\* the handler, run on database db with request r at the clock r.now, the
\* queries of r.failed and the loop's rounds of r.failed_days failing:
\* [status: the HTTP status, body: the data and the debug object of the response]
get_dashboard_data(db, r) ==
    LET T == db.transaksi
        today == r.now
        start_of_month == from_ymd_opt(today.year, today.month, 1)[1]
        user_transaction_count ==
            UnwrapOrZero("user_transaction_count" \in r.failed,
                         Cardinality(OfUser(T, r.user_id)))
        actual_user == IF user_transaction_count = 0 THEN FallbackUser ELSE r.user_id
        hari_ini == OnDay(T, actual_user, today)
        bulan_ini == InWindow(T, actual_user, start_of_month, today)
    IN  [status |-> OK,
         body |-> Some(
            [total_hari_ini |->
                UnwrapOrZero("total_hari_ini" \in r.failed, SumJumlah(hari_ini)),
             total_bulan_ini |->
                UnwrapOrZero("total_bulan_ini" \in r.failed, SumJumlah(bulan_ini)),
             tertinggi_hari_ini |->
                SomeOrZero("tertinggi_hari_ini" \in r.failed, MaxJumlah(hari_ini)),
             tertinggi_bulan_ini |->
                SomeOrZero("tertinggi_bulan_ini" \in r.failed, MaxJumlah(bulan_ini)),
             terendah_hari_ini |->
                SomeOrZero("terendah_hari_ini" \in r.failed,
                           MinJumlah(PositiveJumlah(hari_ini))),
             terendah_bulan_ini |->
                SomeOrZero("terendah_bulan_ini" \in r.failed,
                           MinJumlah(PositiveJumlah(bulan_ini))),
             pengeluaran_mingguan |->
                [k \in 1..7 |->
                    ChartDataPoint(T, actual_user, today, k - 1, (k - 1) \in r.failed_days)],
             transaksi_terakhir |->
                TransaksiTerakhir(T, actual_user, "transaksi_terakhir" \in r.failed),
             debug |-> [requested_user |-> r.user_id, actual_user |-> actual_user,
                        user_switched |-> (user_transaction_count = 0)]])]

\* the clock at the time of a dashboard request
DashboardTodays == {Date(2024, 3, 5), Date(2024, 3, 1)}

\* the rounds of the loop that fail together
FailedDays == {{}, {0}, {3, 6}, 0..6}

DashboardRequests ==
    [op : {"get_dashboard_data"}, user_id : {"u1", "u2"}, now : DashboardTodays,
     failed : SUBSET DashboardQueries, failed_days : FailedDays]

\* a stored row of amount j; the column is an INT4 and admits 0
DashRow(id, user, k, j, tanggal) ==
    [StatRow(id, user, k, 1, tanggal) EXCEPT !.jumlah = j]

\* ledgers the dashboard is asked over: none; amounts {0, 0, 7} on one day;
\* rows of three users over the week and the month; rows of the user written
\* into the handler only; more rows of one user than the list holds
DashboardLedgers ==
    LET d1 == DashRow(1, "u1", 1, 0, <<2024, 3, 5>>)
        d2 == DashRow(2, "u1", 1, 0, <<2024, 3, 5>>)
        d3 == DashRow(3, "u1", 2, 7, <<2024, 3, 5>>)
        d4 == DashRow(4, "u1", 1, 3, <<2024, 3, 2>>)
        d5 == DashRow(5, "u1", 2, 5, <<2024, 2, 28>>)
        d6 == DashRow(6, "u2", 1, 9, <<2024, 3, 5>>)
        d7 == DashRow(7, FallbackUser, 1, 4, <<2024, 3, 5>>)
        d8 == DashRow(8, FallbackUser, 2, 2, Mar01)
        many == {DashRow(10 + i, "u1", 1, i, IF i % 2 = 0 THEN Mar01 ELSE Feb29) : i \in 1..11}
    IN  {{}, {d1, d2, d3}, {d1, d2, d3, d4, d5, d6}, {d7, d8},
         {d1, d2, d3, d4, d5, d6, d7, d8}, many \cup {d7}}

InitDashboard ==
    \E L \in DashboardLedgers :
        InitWith([transaksi |-> L, budgets |-> {}, seqT |-> 30, seqB |-> 1], {})

GetDashboardData(p) ==
    \E r \in DashboardRequests :
        LET out == get_dashboard_data(DB, r) IN
        /\ Quiet
        /\ pc' = [pc EXCEPT ![p] = "done"]
        /\ req' = [req EXCEPT ![p] = r]
        /\ resp' = [resp EXCEPT ![p] = out.status]
        /\ body' = [body EXCEPT ![p] = out.body]
        /\ base' = DB
        /\ UNCHANGED <<transaksi, budgets, seqT, seqB, old, upd, wT, wB, served, pristine>>

NextDashboard ==
    \/ GetDashboardData("p1")
    \/ Respond

SpecDashboard == InitDashboard /\ [][NextDashboard]_vars

-----------------------------------------------------------------------------
(* The analytics next to the budgets: the same analytics request served twice,
   budget requests served in between *)

MaxBudgetChanges == 2

\* ledgers of three and of six rows, of the statistics and of the dashboard
AnalyticsLedgers == {L \in StatLedgers \cup DashboardLedgers : Cardinality(L) \in {3, 6}}

AnalyticsRequests ==
    {r \in StatRequests : /\ r.now = Date(2024, 3, 5)
                          /\ r.query.filter \in {None, Some("weekly")}
                          /\ r.query.year = None /\ r.query.month = None
                          /\ r.query.start_date = None /\ r.query.end_date = None}
    \cup {r \in DashboardRequests : /\ r.now = Date(2024, 3, 5)
                                    /\ r.failed = {} /\ r.failed_days = {}}

\* the budget requests served between two analytics requests
BudgetRequests(db) ==
    ReqCreateBudget({"u1"}, {1, 2}, {5})
    \cup ReqUpdateBudget({"u1"}, BudgetIds(db), {Some(9)}, {Some(3)})
    \cup ReqDeleteBudget({"u1"}, BudgetIds(db))

InitAnalytics ==
    \E L \in AnalyticsLedgers :
        InitWith([transaksi |-> L, budgets |-> {}, seqT |-> 30, seqB |-> 1], {})

\* an analytics handler run by worker p; the second worker is served after the first
AnalyticsRead(p, r, out) ==
    /\ pc[p] = "idle"
    /\ p = "p2" => pc["p1"] = "done"
    /\ pc' = [pc EXCEPT ![p] = "done"]
    /\ req' = [req EXCEPT ![p] = r]
    /\ resp' = [resp EXCEPT ![p] = out.status]
    /\ body' = [body EXCEPT ![p] = out.body]
    /\ base' = IF Quiet THEN DB ELSE base
    /\ UNCHANGED <<transaksi, budgets, seqT, seqB, old, upd, wT, wB, served, pristine>>

ReadStatistik(p) ==
    \E r \in AnalyticsRequests :
        r.op = "get_user_statistik" /\ AnalyticsRead(p, r, get_user_statistik(DB, r))

ReadDashboard(p) ==
    \E r \in AnalyticsRequests :
        r.op = "get_dashboard_data" /\ AnalyticsRead(p, r, get_dashboard_data(DB, r))

\* create_budget, update_budget or delete_budget served for another client
\* after the first analytics response and before the second request
BudgetChange ==
    \E r \in BudgetRequests(DB) :
        LET out == Handle(DB, r) IN
        /\ pc["p1"] = "done" /\ pc["p2"] = "idle"
        /\ served < MaxBudgetChanges
        /\ out.status = OK
        /\ served' = served + 1
        /\ budgets' = out.db.budgets
        /\ seqB' = out.db.seqB
        /\ transaksi' = out.db.transaksi
        /\ seqT' = out.db.seqT
        /\ UNCHANGED <<pc, req, resp, body, old, upd, wT, wB, pristine, base>>

NextAnalytics ==
    \/ ReadStatistik("p1")
    \/ ReadDashboard("p1")
    \/ BudgetChange
    \/ ReadStatistik("p2")
    \/ ReadDashboard("p2")
    \/ Respond

SpecAnalytics == InitAnalytics /\ [][NextAnalytics]_vars

-----------------------------------------------------------------------------
(* Concurrent workers over a ledger with two transactions in one budgeted category *)

\* what create_budget(1), create_budget(2), create_transaksi(1, 1),
\* create_transaksi(2, 1), create_transaksi(1, 1) of user u1 leave behind
SeedTwoDB ==
    [transaksi |-> SeedDB.transaksi
                   \cup {NewTransaksi(3, "u1", [kategori_id |-> 1, jumlah |-> 1,
                                                deskripsi |-> <<"x">>, tanggal |-> Feb29])},
     budgets |-> {[b EXCEPT !.spent = Some(IF b.kategori_id = 1 THEN 2 ELSE 1)] :
                    b \in SeedDB.budgets},
     seqT |-> 4, seqB |-> 3]

InitConcTwo == InitWith(EmptyDB, {}) \/ InitWith(SeedTwoDB, {1, 2})

SpecConcTwo == InitConcTwo /\ [][NextConc]_vars

-----------------------------------------------------------------------------
(* get_user_statistik statement by statement, next to the ledger's mutations:
   its three queries run on the pool, each one reading what is committed when
   it runs *)

MaxLedgerChanges == 2

\* the statistics requests served statement by statement: the month of the seeded rows
StepRequests ==
    {r \in StatRequests : /\ r.now = Date(2024, 2, 29)
                          /\ r.query.filter \in {None, Some("daily")}
                          /\ r.query.year = None /\ r.query.month = None
                          /\ r.query.start_date = None /\ r.query.end_date = None}

\* final_start_date, final_end_date of request r
FinalWindow(r) ==
    LET window == ResolveWindow(r.now, r.query)[1] IN
    [start |-> OverrideBound(r.query.start_date, window.start),
     end |-> OverrideBound(r.query.end_date, window.end)]

InitStatistikSteps == InitWith(SeedTwoDB, {1, 2})

\* the request is taken and its window resolved
StatistikBegin(p) ==
    \E r \in StepRequests :
        /\ pc[p] = "idle"
        /\ req' = [req EXCEPT ![p] = r]
        /\ pc' = [pc EXCEPT ![p] = "st_total"]
        /\ base' = DB
        /\ UNCHANGED <<transaksi, budgets, seqT, seqB, resp, body, old, upd, wT, wB, served, pristine>>

\* SELECT COALESCE(SUM(jumlah), 0) FROM transaksi WHERE ...; old holds what the
\* handler has read so far
StatistikTotal(p) ==
    /\ pc[p] = "st_total"
    /\ LET w == FinalWindow(req[p]) IN
       old' = [old EXCEPT ![p] =
                Some([total_pengeluaran |->
                        SumJumlah(InWindow(transaksi, req[p].user_id, w.start, w.end))])]
    /\ pc' = [pc EXCEPT ![p] = "st_kategori"]
    /\ UNCHANGED <<transaksi, budgets, seqT, seqB, req, resp, body, upd, wT, wB, served, pristine, base>>

\* SELECT c.nama, ... FROM categories c LEFT JOIN transaksi t ..., bound to the total read before
StatistikKategori(p) ==
    /\ pc[p] = "st_kategori"
    /\ LET w == FinalWindow(req[p]) IN
       old' = [old EXCEPT ![p] =
                Some([total_pengeluaran |-> old[p][1].total_pengeluaran,
                      pengeluaran_per_kategori |->
                        KategoriBreakdown(transaksi, req[p].user_id, w.start, w.end,
                                          old[p][1].total_pengeluaran)])]
    /\ pc' = [pc EXCEPT ![p] = "st_count"]
    /\ UNCHANGED <<transaksi, budgets, seqT, seqB, req, resp, body, upd, wT, wB, served, pristine, base>>

\* SELECT COUNT(*) FROM transaksi WHERE ..., and the response
StatistikCount(p) ==
    /\ pc[p] = "st_count"
    /\ LET w == FinalWindow(req[p]) IN
       body' = [body EXCEPT ![p] =
                Some([pengeluaran_per_kategori |-> old[p][1].pengeluaran_per_kategori,
                      ringkasan |->
                        [total_pengeluaran |-> old[p][1].total_pengeluaran,
                         rata_rata_harian |->
                            RataRataHarian(old[p][1].total_pengeluaran, w.start, w.end),
                         total_transaksi |->
                            Cardinality(InWindow(transaksi, req[p].user_id, w.start, w.end))],
                      filter_applied |->
                        [start_date |-> FormatDate(w.start), end_date |-> FormatDate(w.end)]])]
    /\ pc' = [pc EXCEPT ![p] = "done"]
    /\ resp' = [resp EXCEPT ![p] = OK]
    /\ old' = [old EXCEPT ![p] = None]
    /\ UNCHANGED <<transaksi, budgets, seqT, seqB, req, upd, wT, wB, served, pristine, base>>

\* create_transaksi, update_transaksi or delete_transaksi of another request
\* commits: its writes become visible together
LedgerCommit ==
    \E r \in ConcRequests(DB) :
        LET out == Handle(DB, r) IN
        /\ r.op \in {"create_transaksi", "update_transaksi", "delete_transaksi"}
        /\ out.status = OK
        /\ served < MaxLedgerChanges
        /\ served' = served + 1
        /\ transaksi' = out.db.transaksi
        /\ budgets' = out.db.budgets
        /\ seqT' = out.db.seqT
        /\ seqB' = out.db.seqB
        /\ UNCHANGED <<pc, req, resp, body, old, upd, wT, wB, pristine, base>>

NextStatistikSteps ==
    \/ StatistikBegin("p1")
    \/ StatistikTotal("p1")
    \/ StatistikKategori("p1")
    \/ StatistikCount("p1")
    \/ LedgerCommit
    \/ Respond

SpecStatistikSteps == InitStatistikSteps /\ [][NextStatistikSteps]_vars

-----------------------------------------------------------------------------
(* get_user_transaksi: the listing of a user's transactions, its SQL text
   assembled from the optional filters and its arguments bound one after another *)

\* a bound argument, with the SQL type sqlx declares for it
Bind(type, val) == [type |-> type, val |-> val]

\* query.limit.unwrap_or(50)
DefaultLimit == 50

\* the placeholder numbers the SQL text gives to its clauses, 0 for a clause left
\* out: param_count starts at 2 and is raised by each filter that is supplied
Placeholders(query) ==
    LET k == IF IsSome(query.kategori_id) THEN 1 ELSE 0
        s == IF IsSome(query.start_date) THEN 1 ELSE 0
        e == IF IsSome(query.end_date) THEN 1 ELSE 0
    IN  [kategori_id |-> IF k = 1 THEN 2 ELSE 0,
         start_date |-> IF s = 1 THEN 2 + k ELSE 0,
         end_date |-> IF e = 1 THEN 2 + k + s ELSE 0,
         limit |-> 2 + k + s + e,
         offset |-> 3 + k + s + e]

\* the arguments in the order of the calls of bind: user, limit, the filters
\* that are supplied (a date only when it parses), offset
Binds(user, query) ==
    <<Bind("uuid", user), Bind("int8", Coalesce(query.limit, DefaultLimit))>>
    \o (IF IsSome(query.kategori_id) THEN <<Bind("int4", query.kategori_id[1])>> ELSE <<>>)
    \o (IF IsSome(query.start_date) /\ ParseDate(query.start_date[1]) # None
        THEN <<Bind("date", ParseDate(query.start_date[1])[1])>> ELSE <<>>)
    \o (IF IsSome(query.end_date) /\ ParseDate(query.end_date[1]) # None
        THEN <<Bind("date", ParseDate(query.end_date[1])[1])>> ELSE <<>>)
    \o <<Bind("int8", Coalesce(query.offset, 0))>>

IsInteger(b) == b.type \in {"int4", "int8"}

\* does the database accept the statement with these arguments: as many
\* arguments as placeholders, an integer for kategori_id, LIMIT and OFFSET
\* (neither negative), a date for tanggal
Executes(ph, binds) ==
    /\ Len(binds) = ph.offset
    /\ ph.kategori_id # 0 => IsInteger(binds[ph.kategori_id])
    /\ ph.start_date # 0 => binds[ph.start_date].type = "date"
    /\ ph.end_date # 0 => binds[ph.end_date].type = "date"
    /\ IsInteger(binds[ph.limit]) /\ binds[ph.limit].val >= 0
    /\ IsInteger(binds[ph.offset]) /\ binds[ph.offset].val >= 0

\* FROM transaksi t JOIN categories c ON t.kategori_id = c.id WHERE t.user_id = $1
\* and the clauses the text holds, each with the argument of its placeholder
ListingWhere(T, ph, binds) ==
    {t \in T :
        /\ t.user_id = binds[1].val
        /\ CategoryExists(t.kategori_id)
        /\ ph.kategori_id # 0 => t.kategori_id = binds[ph.kategori_id].val
        /\ ph.start_date # 0
           => num_days_from_ce(t.tanggal) >= num_days_from_ce(binds[ph.start_date].val)
        /\ ph.end_date # 0
           => num_days_from_ce(t.tanggal) <= num_days_from_ce(binds[ph.end_date].val)}

\* LIMIT n OFFSET k of a sequence
LimitOffset(seq, n, k) ==
    LET last == IF k + n < Len(seq) THEN k + n ELSE Len(seq) IN
    [i \in 1..(IF last > k THEN last - k ELSE 0) |-> seq[k + i]]

\* a row of the listing (TransaksiWithCategory); the name of a category is
\* modelled by its id
TransaksiWithCategory(t) ==
    [id |-> t.id, user_id |-> t.user_id, kategori_id |-> t.kategori_id,
     kategori_nama |-> t.kategori_id, jumlah |-> t.jumlah, deskripsi |-> t.deskripsi,
     tanggal |-> t.tanggal]

\* the handler, run on database db with request r: [status, body: the rows]
get_user_transaksi(db, r) ==
    LET ph == Placeholders(r.query)
        binds == Binds(r.user_id, r.query)
    IN  IF ~Executes(ph, binds) THEN [status |-> INTERNAL_SERVER_ERROR, body |-> None]
        ELSE LET sorted == SortSeq(SeqOfSet(ListingWhere(db.transaksi, ph, binds)),
                                   RecentBefore)
                 page == LimitOffset(sorted, binds[ph.limit].val, binds[ph.offset].val)
             IN  [status |-> OK,
                  body |-> Some([i \in 1..Len(page) |-> TransaksiWithCategory(page[i])])]

TransaksiQueries ==
    [limit : {None, Some(1), Some(2)},
     offset : {None, Some(1)},
     kategori_id : {None, Some(1), Some(2)},
     start_date : {None, Some(Feb29), Some(Feb30)},
     end_date : {None, Some(Mar01)}]

ListingRequests == [op : {"get_user_transaksi"}, user_id : {"u1"}, query : TransaksiQueries]

InitListing ==
    \E L \in StatLedgers :
        InitWith([transaksi |-> L, budgets |-> {}, seqT |-> 6, seqB |-> 1], {})

GetUserTransaksi(p) ==
    \E r \in ListingRequests :
        LET out == get_user_transaksi(DB, r) IN
        /\ Quiet
        /\ pc' = [pc EXCEPT ![p] = "done"]
        /\ req' = [req EXCEPT ![p] = r]
        /\ resp' = [resp EXCEPT ![p] = out.status]
        /\ body' = [body EXCEPT ![p] = out.body]
        /\ base' = DB
        /\ UNCHANGED <<transaksi, budgets, seqT, seqB, old, upd, wT, wB, served, pristine>>

NextListing ==
    \/ GetUserTransaksi("p1")
    \/ Respond

SpecListing == InitListing /\ [][NextListing]_vars

-----------------------------------------------------------------------------
(* One request at a time over the ledgers and budgets of two users *)

\* what create_budget(1), create_budget(2), create_transaksi(1, 1),
\* create_transaksi(2, 1) of user u1 and the same four requests of user u2
\* leave behind
SeedUsersDB ==
    [transaksi |-> SeedDB.transaksi
                   \cup {NewTransaksi(2 + k, "u2", [kategori_id |-> k, jumlah |-> 1,
                                                    deskripsi |-> <<"x">>, tanggal |-> Feb29]) :
                            k \in {1, 2}},
     budgets |-> SeedDB.budgets
                 \cup {[NewBudget(2 + k, "u2", [kategori_id |-> k, amount |-> 5])
                          EXCEPT !.spent = Some(1)] : k \in {1, 2}},
     seqT |-> 5, seqB |-> 5]

\* the ledger requests of the two users
UsersRequests(db) ==
    ReqCreateTransaksi({"u1", "u2"}, {1}, {2}, {<<"x">>}, {Feb29})
    \cup [op : {"update_transaksi"}, user_id : {"u1"}, id : TransaksiIds(db),
          payload : Patch({Some(2)}, {None}, {None}, {None})
                    \cup Patch({None}, {Some(3)}, {None}, {None})
                    \cup Patch({Some(1)}, {Some(3)}, {None}, {None})]
    \cup ReqDeleteTransaksi({"u1", "u2"}, TransaksiIds(db))

InitUsers == InitWith(SeedUsersDB, {1, 2, 3, 4})

CreateTransaksiOfUsers(p) ==
    \E r \in UsersRequests(DB) : r.op = "create_transaksi" /\ Serve(p, r)
UpdateTransaksiOfUsers(p) ==
    \E r \in UsersRequests(DB) : r.op = "update_transaksi" /\ Serve(p, r)
DeleteTransaksiOfUsers(p) ==
    \E r \in UsersRequests(DB) : r.op = "delete_transaksi" /\ Serve(p, r)

NextUsers ==
    \/ CreateTransaksiOfUsers("p1")
    \/ UpdateTransaksiOfUsers("p1")
    \/ DeleteTransaksiOfUsers("p1")
    \/ Respond

SpecUsers == InitUsers /\ [][NextUsers]_vars

-----------------------------------------------------------------------------
(* The two models of a handler agree: a request served while no other is in
   flight ends, unless a statement failed, in the database and with the status
   the handler run alone gives *)

Ledger(op) == op \in {"create_transaksi", "update_transaksi", "delete_transaksi"}

Alone(p) == pc[p] = "done" /\ \A q \in Procs \ {p} : pc[q] = "idle"

StepsAgreeWithHandler ==
    \A p \in Procs :
        Alone(p) /\ resp[p] # INTERNAL_SERVER_ERROR
        => /\ DB = Handle(base, req[p]).db
           /\ resp[p] = Handle(base, req[p]).status

\* the seeded database of the concurrent specification is one the handlers produce
SeedNotReached == DB # SeedDB

-----------------------------------------------------------------------------
(* Claims *)

\* the rows of (user, category) in a ledger
RowsOf(T, user, kat) == {t \in T : t.user_id = user /\ t.kategori_id = kat}

\* the budget row with the id of b in table B, None when it is gone
Same(B, b) == IF \E x \in B : x.id = b.id THEN Some(CHOOSE x \in B : x.id = b.id) ELSE None

\* table B2 is B1 with spent replaced by f(b) on every row, nothing added or removed
SpentBecomes(B1, B2, f(_)) ==
    /\ {b.id : b \in B1} = {b.id : b \in B2}
    /\ Cardinality(B2) = Cardinality(B1)
    /\ \A b \in B1 : Same(B2, b) = Some([b EXCEPT !.spent = f(b)])

\* C1: for a budget created over an empty (user, category) ledger and never edited
\* or deleted, after every accepted create/update/delete of transactions served one
\* at a time, spent = max(0, sum of the amounts stored for that (user, category))
C1_SpentIsLedgerSum ==
    \A b \in budgets :
        b.id \in pristine
        => Coalesce(b.spent, 0)
            = Greatest(0, SumJumlah(RowsOf(transaksi, b.user_id, b.kategori_id)))

\* C2: in every state reachable by transaction and budget requests, the spent of
\* every budget row is at least 0
C2_SpentNeverNegative == \A b \in budgets : Coalesce(b.spent, 0) >= 0

\* C3: two concurrent ledger mutations that have both committed leave the budgets
\* as one of the two serial orders of the two requests leaves them
C3_NoLostUpdate ==
    (\A p \in Procs : pc[p] = "done" /\ resp[p] = OK /\ Ledger(req[p].op))
    => \E p, q \in Procs :
        /\ p # q
        /\ budgets = Handle(Handle(base, req[p]).db, req[q]).db.budgets

\* C4: the committed tables, which is what a concurrent reader sees, change by a
\* ledger mutation only in the commit of one unit of work, and that step makes
\* the row write and the budget writes of the unit visible together
C4_WritesVisibleTogether ==
    [][ (transaksi' # transaksi \/ budgets' # budgets)
        => \E p \in Procs :
            \/ /\ pc[p] = "commit" /\ pc'[p] = "done" /\ resp'[p] = OK
               /\ transaksi' = Applied(transaksi, wT[p])
               /\ budgets' = Applied(budgets, wB[p])
            \/ /\ pc[p] = "cb_insert" /\ pc'[p] = "done" /\ resp'[p] = OK
               /\ transaksi' = transaksi ]_vars

C4_Witness ==
    \E p \in Procs :
        /\ pc[p] = "done" /\ resp[p] = OK /\ Ledger(req[p].op)
        /\ \E q \in Procs \ {p} : pc[q] \notin {"idle", "done"}
        /\ transaksi # base.transaksi
        /\ budgets # base.budgets

\* C5: a create/update/delete of which a step fails answers with the server error
\* and leaves the ledger and every budget as they were: the failing step changes
\* no committed row, and a request that failed with no other in flight leaves the
\* tables as they were when it began
C5_FailureLeavesNoTrace ==
    [][ \A p \in Procs :
            /\ (pc[p] \notin {"idle", "done", "cb_insert"} /\ pc'[p] = "done" /\ resp'[p] # OK)
               => /\ resp'[p] = INTERNAL_SERVER_ERROR
                  /\ transaksi' = transaksi
                  /\ budgets' = budgets
            /\ (pc'[p] = "done" /\ Ledger(req'[p].op) /\ resp'[p] = INTERNAL_SERVER_ERROR
                /\ \A q \in Procs \ {p} : pc'[q] = "idle")
               => /\ transaksi' = base'.transaksi
                  /\ budgets' = base'.budgets ]_vars

C5_Witness ==
    \E p \in Procs :
        /\ Alone(p) /\ resp[p] = INTERNAL_SERVER_ERROR
        /\ req[p].op = "create_transaksi"
        /\ seqT = base.seqT + 1
        /\ SelectBudgetFor(budgets, req[p].user_id, req[p].payload.kategori_id) # {}

\* C6: an update_transaksi whose supplied amount is <= 0 or whose supplied date is
\* no calendar date is rejected with a client error and changes no row
C6_UpdateValidatesLikeCreate ==
    \A p \in Procs :
        (/\ pc[p] = "done" /\ req[p].op = "update_transaksi"
         /\ \/ IsSome(req[p].payload.jumlah) /\ req[p].payload.jumlah[1] <= 0
            \/ IsSome(req[p].payload.tanggal) /\ ParseDate(req[p].payload.tanggal[1]) = None)
        => /\ resp[p] \in {BAD_REQUEST, NOT_FOUND}
           /\ transaksi = base.transaksi
           /\ budgets = base.budgets

OldRow(r) == CHOOSE t \in base.transaksi : t.id = r.id

\* the amount the row has after the update: the supplied one, else the original
NewAmount(r) == IF IsSome(r.payload.jumlah) THEN r.payload.jumlah[1] ELSE OldRow(r).jumlah

\* does request r of the user hit budget row b of category kat
Hits(r, b, kat) == b.user_id = r.user_id /\ b.kategori_id = kat

\* C8: a successful create_transaksi adds exactly one row, with a fresh id and the
\* given user, category, amount, trimmed description and parsed date; the budget of
\* that (user, category), if there is one, has spent raised by the amount, and no
\* budget row is added, removed or changed otherwise
C8_CreateAddsRowAndSpends ==
    \A p \in Procs :
        (pc[p] = "done" /\ req[p].op = "create_transaksi" /\ resp[p] = OK)
        => LET r == req[p]
               f(b) == IF Hits(r, b, r.payload.kategori_id)
                       THEN Some(Coalesce(b.spent, 0) + r.payload.jumlah) ELSE b.spent
           IN  /\ \E t \in transaksi :
                    /\ transaksi = base.transaksi \cup {t}
                    /\ \A x \in base.transaksi : x.id # t.id
                    /\ t.user_id = r.user_id
                    /\ t.kategori_id = r.payload.kategori_id
                    /\ t.jumlah = r.payload.jumlah
                    /\ t.deskripsi = Trim(r.payload.deskripsi)
                    /\ Head(t.deskripsi) # " " /\ t.deskripsi[Len(t.deskripsi)] # " "
                    /\ Some(t.tanggal) = ParseDate(r.payload.tanggal)
               /\ SpentBecomes(base.budgets, budgets, f)

C8_Witness ==
    \E p \in Procs :
        /\ pc[p] = "done" /\ req[p].op = "create_transaksi" /\ resp[p] = OK
        /\ req[p].payload.deskripsi # Trim(req[p].payload.deskripsi)
        /\ SelectBudgetFor(base.budgets, req[p].user_id, req[p].payload.kategori_id) # {}
        /\ Cardinality(base.budgets) = 2
        /\ base.transaksi # {}

\* C9: a successful update_transaksi that moves a row from category X to another
\* category Y lowers spent of X's budget by the row's old amount, floored at 0,
\* raises spent of Y's budget by the amount the row has after the update, and
\* leaves every other budget as it was
C9_CategoryChangeMovesAmount ==
    \A p \in Procs :
        (/\ pc[p] = "done" /\ req[p].op = "update_transaksi" /\ resp[p] = OK
         /\ IsSome(req[p].payload.kategori_id)
         /\ req[p].payload.kategori_id[1] # OldRow(req[p]).kategori_id)
        => LET r == req[p]
               f(b) == IF Hits(r, b, OldRow(r).kategori_id)
                       THEN Some(Greatest(Coalesce(b.spent, 0) - OldRow(r).jumlah, 0))
                       ELSE IF Hits(r, b, r.payload.kategori_id[1])
                       THEN Some(Coalesce(b.spent, 0) + NewAmount(r))
                       ELSE b.spent
           IN  SpentBecomes(base.budgets, budgets, f)

C9_Witness ==
    \E p \in Procs :
        /\ pc[p] = "done" /\ req[p].op = "update_transaksi" /\ resp[p] = OK
        /\ IsSome(req[p].payload.kategori_id)
        /\ req[p].payload.kategori_id[1] # OldRow(req[p]).kategori_id
        /\ NewAmount(req[p]) # OldRow(req[p]).jumlah
        /\ SelectBudgetFor(base.budgets, req[p].user_id, OldRow(req[p]).kategori_id) # {}
        /\ SelectBudgetFor(base.budgets, req[p].user_id, req[p].payload.kategori_id[1]) # {}

\* C10: a successful update_transaksi that keeps the row in its category changes
\* spent of that category's budget by exactly the new amount minus the old amount
\* and no other budget; one that supplies neither a category nor an amount (only a
\* description, or only a date) leaves spent of every budget as it was
C10_SameCategoryAdjustsByDifference ==
    \A p \in Procs :
        (/\ pc[p] = "done" /\ req[p].op = "update_transaksi" /\ resp[p] = OK
         /\ ~(/\ IsSome(req[p].payload.kategori_id)
              /\ req[p].payload.kategori_id[1] # OldRow(req[p]).kategori_id))
        => LET r == req[p]
               f(b) == IF Hits(r, b, OldRow(r).kategori_id)
                       THEN Some(Coalesce(b.spent, 0) + (NewAmount(r) - OldRow(r).jumlah))
                       ELSE b.spent
           IN  /\ SpentBecomes(base.budgets, budgets, f)
               /\ (r.payload.kategori_id = None /\ r.payload.jumlah = None)
                  => \A b \in base.budgets :
                        \E c \in budgets :
                            c.id = b.id /\ Coalesce(c.spent, 0) = Coalesce(b.spent, 0)

C10_Witness ==
    \E p \in Procs :
        /\ pc[p] = "done" /\ req[p].op = "update_transaksi" /\ resp[p] = OK
        /\ req[p].payload.kategori_id = Some(OldRow(req[p]).kategori_id)
        /\ NewAmount(req[p]) > OldRow(req[p]).jumlah
        /\ SelectBudgetFor(base.budgets, req[p].user_id, OldRow(req[p]).kategori_id) # {}

\* C11: a successful delete_transaksi of a row of amount A removes exactly that row
\* and sets spent of the budget of the row's (user, category) to max(0, spent - A);
\* every other budget stays as it was
C11_DeleteSubtractsFlooredAtZero ==
    \A p \in Procs :
        (pc[p] = "done" /\ req[p].op = "delete_transaksi" /\ resp[p] = OK)
        => LET r == req[p]
               A == OldRow(r).jumlah
               f(b) == IF Hits(r, b, OldRow(r).kategori_id)
                       THEN Some(IF Coalesce(b.spent, 0) - A > 0
                                 THEN Coalesce(b.spent, 0) - A ELSE 0)
                       ELSE b.spent
           IN  /\ OldRow(r) \in base.transaksi
               /\ transaksi = base.transaksi \ {OldRow(r)}
               /\ SpentBecomes(base.budgets, budgets, f)

\* a delete of amount A from a budget whose spent is below A
C11_Witness ==
    \E p \in Procs :
        /\ pc[p] = "done" /\ req[p].op = "delete_transaksi" /\ resp[p] = OK
        /\ \E b \in base.budgets :
            /\ Hits(req[p], b, OldRow(req[p]).kategori_id)
            /\ Coalesce(b.spent, 0) < OldRow(req[p]).jumlah
            /\ \E c \in budgets : c.id = b.id /\ c.spent = Some(0)

\* is a create_transaksi payload one the preconditions of Create exclude
InvalidCreate(payload) ==
    \/ payload.jumlah <= 0
    \/ \A i \in 1..Len(payload.deskripsi) : payload.deskripsi[i] = " "
    \/ ParseDate(payload.tanggal) = None
    \/ payload.kategori_id \notin Categories

\* C12: a create_transaksi whose amount is <= 0, whose description is empty after
\* trimming, whose date is no calendar date or whose category does not exist is
\* answered with the client error and writes nothing (no row, no budget change, no
\* id taken); one with amount 1 and otherwise valid fields is accepted
C12_CreateRejectsInvalid ==
    \A p \in Procs :
        (pc[p] = "done" /\ req[p].op = "create_transaksi")
        => /\ InvalidCreate(req[p].payload)
              => /\ resp[p] = BAD_REQUEST
                 /\ transaksi = base.transaksi
                 /\ budgets = base.budgets
                 /\ seqT = base.seqT
           /\ (~InvalidCreate(req[p].payload) /\ req[p].payload.jumlah = 1)
              => /\ resp[p] = OK
                 /\ transaksi # base.transaksi

\* a create with amount 0 is turned down over a ledger and a budget it would have hit
C12_Witness ==
    \E p \in Procs :
        /\ pc[p] = "done" /\ req[p].op = "create_transaksi"
        /\ req[p].payload.jumlah = 0
        /\ resp[p] = BAD_REQUEST
        /\ base.transaksi # {}
        /\ SelectBudgetFor(base.budgets, req[p].user_id, req[p].payload.kategori_id) # {}

\* C13: an update_transaksi or delete_transaksi naming an id that no stored row
\* has, or the id of a row of another user, is answered with not-found and writes
\* nothing: the ledger and every budget are as they were
C13_NotFoundWritesNothing ==
    \A p \in Procs :
        (/\ pc[p] = "done" /\ req[p].op \in {"update_transaksi", "delete_transaksi"}
         /\ ~ \E t \in base.transaksi : t.id = req[p].id /\ t.user_id = req[p].user_id)
        => /\ resp[p] = NOT_FOUND
           /\ transaksi = base.transaksi
           /\ budgets = base.budgets

\* a delete by another user of a stored row whose category has a budget
C13_Witness ==
    \E p \in Procs :
        /\ pc[p] = "done" /\ req[p].op = "delete_transaksi" /\ resp[p] = NOT_FOUND
        /\ \E t \in base.transaksi :
            /\ t.id = req[p].id /\ t.user_id # req[p].user_id
            /\ SelectBudgetFor(base.budgets, t.user_id, t.kategori_id) # {}

\* the ledger after request r is the ledger before it with the row r names replaced
\* by a row of the same id and user whose category, amount and date are the supplied
\* ones where supplied and the prior ones where not, and whose description is d
RowMerged(r, d) ==
    \E n \in transaksi :
        /\ transaksi = (base.transaksi \ {OldRow(r)}) \cup {n}
        /\ n.id = OldRow(r).id
        /\ n.user_id = OldRow(r).user_id
        /\ n.kategori_id = IF IsSome(r.payload.kategori_id) THEN r.payload.kategori_id[1]
                           ELSE OldRow(r).kategori_id
        /\ n.jumlah = IF IsSome(r.payload.jumlah) THEN r.payload.jumlah[1]
                      ELSE OldRow(r).jumlah
        /\ Some(n.tanggal) = IF IsSome(r.payload.tanggal) THEN ParseDate(r.payload.tanggal[1])
                             ELSE Some(OldRow(r).tanggal)
        /\ n.deskripsi = d

\* C14 as stated: after a successful update_transaksi each of category, amount,
\* description and date is the supplied value if supplied and the prior value if
\* not; id and user_id are unchanged
C14_UpdateStoresSuppliedValues ==
    \A p \in Procs :
        (pc[p] = "done" /\ req[p].op = "update_transaksi" /\ resp[p] = OK)
        => RowMerged(req[p], IF IsSome(req[p].payload.deskripsi)
                             THEN req[p].payload.deskripsi[1]
                             ELSE OldRow(req[p]).deskripsi)

\* C14 amended: as above, but a supplied description is stored trimmed of the
\* white space around it
C14_UpdateMergesSuppliedFields ==
    \A p \in Procs :
        (pc[p] = "done" /\ req[p].op = "update_transaksi" /\ resp[p] = OK)
        => RowMerged(req[p], IF IsSome(req[p].payload.deskripsi)
                             THEN Trim(req[p].payload.deskripsi[1])
                             ELSE OldRow(req[p]).deskripsi)

\* an update that supplied a date other than the stored one, over a ledger of two rows
C14_Witness ==
    \E p \in Procs :
        /\ pc[p] = "done" /\ req[p].op = "update_transaksi" /\ resp[p] = OK
        /\ IsSome(req[p].payload.tanggal)
        /\ ParseDate(req[p].payload.tanggal[1]) # Some(OldRow(req[p]).tanggal)
        /\ Cardinality(base.transaksi) = 2

\* C15: under fair scheduling every create/update/delete of transactions that was
\* started ends, committed (200) or with the server error (500); this includes two
\* updates that move rows in opposite directions between two budgeted categories
C15_NoMutationBlocksForever ==
    \A p \in Procs :
        (pc[p] \notin {"idle", "done"} /\ Ledger(req[p].op))
        ~> (pc[p] = "done" /\ resp[p] \in {OK, INTERNAL_SERVER_ERROR})

\* two updates, each holding the budget row the other needs next
C15_Witness ==
    \E p, q \in Procs :
        /\ p # q
        /\ pc[p] = "ut_bud_new" /\ pc[q] = "ut_bud_new"
        /\ p \in Blockers(q)
        /\ q \in Blockers(p)

\* is worker p done with a get_user_statistik request
StatDone(p) == pc[p] = "done" /\ req[p].op = "get_user_statistik"

\* date a is not after date b, field by field
NotAfter(a, b) ==
    \/ a.year < b.year
    \/ a.year = b.year /\ a.month < b.month
    \/ a.year = b.year /\ a.month = b.month /\ a.day <= b.day

\* the year and month a request targets: the supplied ones, else those of the clock
TargetYear(r) == IF IsSome(r.query.year) THEN r.query.year[1] ELSE r.now.year
TargetMonth(r) == IF IsSome(r.query.month) THEN r.query.month[1] ELSE r.now.month

\* a request with the monthly or the default filter, a month of the calendar and no
\* explicit bounds
MonthlyUnbounded(r) ==
    /\ r.query.filter \notin {Some("daily"), Some("weekly")}
    /\ TargetMonth(r) \in 1..12
    /\ r.query.start_date = None
    /\ r.query.end_date = None

\* C16: with the monthly or default filter and no explicit bounds the window is
\* [first day of the target month, min(today, last day of the target month)], for
\* every target month, current, past or future
C16_MonthlyWindowEndsByToday ==
    \A p \in Procs :
        (StatDone(p) /\ MonthlyUnbounded(req[p]))
        => LET r == req[p]
               last == Date(TargetYear(r), TargetMonth(r),
                            DaysInMonth(TargetYear(r), TargetMonth(r)))
           IN  /\ resp[p] = OK
               /\ body[p][1].filter_applied.start_date = <<TargetYear(r), TargetMonth(r), 1>>
               /\ body[p][1].filter_applied.end_date
                    = FormatDate(IF NotAfter(r.now, last) THEN r.now ELSE last)

\* the days of the calendar of the years the requests speak of
Calendar ==
    {Date(y, m, d) : y \in 2023..2025, m \in {1, 3, 5, 7, 8, 10, 12}, d \in 1..31}
    \cup {Date(y, m, d) : y \in 2023..2025, m \in {4, 6, 9, 11}, d \in 1..30}
    \cup {Date(y, 2, d) : y \in 2023..2025, d \in 1..28}
    \cup {Date(2024, 2, 29)}

\* the days of the calendar from date a to date b, both included
DaysFromTo(a, b) == {d \in Calendar : NotAfter(a, d) /\ NotAfter(d, b)}

\* the window a response reports, as dates
WindowOf(p) ==
    [start |-> ParseDate(body[p][1].filter_applied.start_date)[1],
     end |-> ParseDate(body[p][1].filter_applied.end_date)[1]]

\* C17: with filter = weekly and no explicit bounds the window is [today - 7 days,
\* today], 8 calendar days in all, and the average per day is the total over 8;
\* with filter = daily it is [today, today]
C17_WeeklyWindowIsEightDays ==
    \A p \in Procs :
        (StatDone(p) /\ req[p].query.start_date = None /\ req[p].query.end_date = None)
        => /\ req[p].query.filter = Some("weekly")
              => /\ resp[p] = OK
                 /\ WindowOf(p).end = req[p].now
                 /\ Cardinality(DaysFromTo(WindowOf(p).start, req[p].now)) = 8
                 /\ body[p][1].ringkasan.rata_rata_harian
                      = [num |-> body[p][1].ringkasan.total_pengeluaran, den |-> 8]
           /\ req[p].query.filter = Some("daily")
              => /\ resp[p] = OK
                 /\ WindowOf(p) = [start |-> req[p].now, end |-> req[p].now]

\* a weekly window that begins in the month before today's and has spending in it
C17_Witness ==
    \E p \in Procs :
        /\ StatDone(p) /\ req[p].query.filter = Some("weekly")
        /\ req[p].query.start_date = None /\ req[p].query.end_date = None
        /\ WindowOf(p).start.month # req[p].now.month
        /\ body[p][1].ringkasan.total_pengeluaran > 0

\* is the text of a date, by its fields <<y, m, d>>, a day of the calendar
IsCalendarDay(s) == s[2] \in 1..12 /\ s[3] \in 1..DaysInMonth(s[1], s[2])

\* the bound a response must report: the supplied text when it is a calendar day,
\* else the text of the bound the filter resolves to
BoundReported(custom, resolved) ==
    IF custom # None /\ IsCalendarDay(custom[1]) THEN custom[1] ELSE FormatDate(resolved)

\* C18: each bound of the window is the supplied date when that date parses and the
\* bound the filter resolves to when it does not or none is supplied, whatever the
\* other bound is; an unparseable bound causes no error
C18_BoundsOverrideIndependently ==
    \A p \in Procs :
        (StatDone(p) /\ ResolveWindow(req[p].now, req[p].query) # None)
        => LET resolved == ResolveWindow(req[p].now, req[p].query)[1] IN
           /\ resp[p] = OK
           /\ body[p][1].filter_applied.start_date
                = BoundReported(req[p].query.start_date, resolved.start)
           /\ body[p][1].filter_applied.end_date
                = BoundReported(req[p].query.end_date, resolved.end)

\* an unparseable start next to a parseable end that differs from the resolved one
C18_Witness ==
    \E p \in Procs :
        /\ StatDone(p) /\ resp[p] = OK
        /\ req[p].query.start_date = Some(Feb30)
        /\ req[p].query.end_date = Some(Mar01)
        /\ body[p][1].filter_applied.end_date = Mar01
        /\ ResolveWindow(req[p].now, req[p].query)[1].end # WindowOf(p).end
        /\ ResolveWindow(req[p].now, req[p].query)[1].start = WindowOf(p).start

\* the rows of the requesting user dated within the window the response reports
RowsInWindow(p) ==
    {t \in transaksi : /\ t.user_id = req[p].user_id
                       /\ NotAfter(WindowOf(p).start, t.tanggal)
                       /\ NotAfter(t.tanggal, WindowOf(p).end)}

\* C19: the category breakdown has exactly one entry for every category of the
\* directory, those without a transaction of the user in the window included (with
\* total 0), each with the sum of the user's amounts of that category in the
\* window; when the total spend of the window is 0 every percentage is 0
C19_BreakdownCoversEveryCategory ==
    \A p \in Procs :
        (StatDone(p) /\ resp[p] = OK)
        => LET rows == body[p][1].pengeluaran_per_kategori IN
           /\ Len(rows) = Cardinality(Categories)
           /\ \A c \in Categories :
                \E i \in 1..Len(rows) :
                    /\ rows[i].kategori_nama = c
                    /\ rows[i].total_pengeluaran
                         = SumJumlah({t \in RowsInWindow(p) : t.kategori_id = c})
           /\ SumJumlah(RowsInWindow(p)) = 0
              => \A i \in 1..Len(rows) : rows[i].persentase = 0

\* a window in which one category has spending and another has none
C19_Witness ==
    \E p \in Procs :
        /\ StatDone(p) /\ resp[p] = OK
        /\ \E i, j \in 1..Len(body[p][1].pengeluaran_per_kategori) :
            /\ body[p][1].pengeluaran_per_kategori[i].total_pengeluaran > 0
            /\ body[p][1].pengeluaran_per_kategori[i].persentase = 10000
            /\ body[p][1].pengeluaran_per_kategori[j].total_pengeluaran = 0
            /\ body[p][1].pengeluaran_per_kategori[j].persentase = 0

\* end - start + 1 in days, counted on the calendar
DayCount(a, b) ==
    IF NotAfter(a, b) THEN Cardinality(DaysFromTo(a, b))
    ELSE 2 - Cardinality(DaysFromTo(b, a))

\* two fractions denote the same number; a fraction over 0 denotes none
SameNumber(x, y) == x.den # 0 /\ y.den # 0 /\ x.num * y.den = y.num * x.den

\* C20 as stated: the summary is scoped to the window, total the sum and count the
\* number of the user's transactions dated in [start, end], and the average per
\* day is total / (end - start + 1), for every window, one whose start lies after
\* its end included
C20_AverageIsTotalOverDayCount ==
    \A p \in Procs :
        (StatDone(p) /\ resp[p] = OK)
        => LET r == body[p][1].ringkasan IN
           /\ r.total_pengeluaran = SumJumlah(RowsInWindow(p))
           /\ r.total_transaksi = Cardinality(RowsInWindow(p))
           /\ SameNumber(r.rata_rata_harian,
                         [num |-> r.total_pengeluaran,
                          den |-> DayCount(WindowOf(p).start, WindowOf(p).end)])

\* C20: the summary is scoped to the window: total is the sum and count the number
\* of the user's transactions dated in [start, end]; the average per day is
\* total / (end - start + 1) when that day count is positive, and when it is zero
\* or negative (start after end) total, count and average are all 0
C20_SummaryScopedToWindow ==
    \A p \in Procs :
        (StatDone(p) /\ resp[p] = OK)
        => LET r == body[p][1].ringkasan
               days == DayCount(WindowOf(p).start, WindowOf(p).end)
           IN  /\ r.total_pengeluaran = SumJumlah(RowsInWindow(p))
               /\ r.total_transaksi = Cardinality(RowsInWindow(p))
               /\ days > 0 => r.rata_rata_harian = [num |-> r.total_pengeluaran, den |-> days]
               /\ days <= 0 => /\ r.total_pengeluaran = 0
                               /\ r.total_transaksi = 0
                               /\ r.rata_rata_harian = [num |-> 0, den |-> 1]

\* a window of several days holding two of the user's transactions, with another
\* of the user's and one of another user's left out of the sums
C20_Witness ==
    \E p \in Procs :
        /\ StatDone(p) /\ resp[p] = OK
        /\ DayCount(WindowOf(p).start, WindowOf(p).end) > 1
        /\ body[p][1].ringkasan.total_transaksi = 2
        /\ body[p][1].ringkasan.total_pengeluaran > 0
        /\ \E t \in transaksi : t.user_id = req[p].user_id /\ t \notin RowsInWindow(p)
        /\ \E t \in transaksi : /\ t.user_id # req[p].user_id
                                /\ NotAfter(WindowOf(p).start, t.tanggal)
                                /\ NotAfter(t.tanggal, WindowOf(p).end)

DashDone(p) == pc[p] = "done" /\ req[p].op = "get_dashboard_data"

\* the rows the dashboard of a response was computed over: those of the user its
\* debug object names
DashRows(p) == {t \in transaksi : t.user_id = body[p][1].debug.actual_user}

\* the rows of a response's user dated today, and dated from the first of
\* today's month to today
DashToday(p) == {t \in DashRows(p) : t.tanggal = req[p].now}
DashMonth(p) ==
    {t \in DashRows(p) : /\ t.tanggal.year = req[p].now.year
                         /\ t.tanggal.month = req[p].now.month
                         /\ t.tanggal.day <= req[p].now.day}

\* v is the least strictly positive amount of the rows T, or 0 when T has none
LeastPositiveOrZero(v, T) ==
    IF \E t \in T : t.jumlah > 0
    THEN /\ v > 0
         /\ \E t \in T : t.jumlah = v
         /\ \A t \in T : t.jumlah > 0 => v <= t.jumlah
    ELSE v = 0

\* C21: when its queries succeed, the dashboard's lowest-today and
\* lowest-this-month values are the minimum over the strictly positive amounts of
\* the window (amounts {0, 0, 7} give 7), and 0 only when the window has no
\* transaction of positive amount
C21_LowestIsLeastPositiveAmount ==
    \A p \in Procs :
        DashDone(p)
        => /\ "terendah_hari_ini" \notin req[p].failed
              => LeastPositiveOrZero(body[p][1].terendah_hari_ini, DashToday(p))
           /\ "terendah_bulan_ini" \notin req[p].failed
              => LeastPositiveOrZero(body[p][1].terendah_bulan_ini, DashMonth(p))

\* today's amounts are {0, 0, 7} and the lowest today is 7, the lowest of the
\* month 3
C21_Witness ==
    \E p \in Procs :
        /\ DashDone(p) /\ req[p].failed = {}
        /\ Cardinality({t \in DashToday(p) : t.jumlah = 0}) = 2
        /\ body[p][1].terendah_hari_ini = 7
        /\ body[p][1].terendah_bulan_ini = 3

\* the calendar day n days before date d
DayBefore(d, n) ==
    LET near == {c \in Calendar :
                    \/ c.year = d.year /\ c.month \in {d.month - 1, d.month}
                    \/ c.year = d.year - 1 /\ c.month = 12 /\ d.month = 1}
    IN  CHOOSE c \in near :
            /\ NotAfter(c, d)
            /\ Cardinality({x \in near : NotAfter(c, x) /\ NotAfter(x, d)}) = n + 1

\* row a of a recent-transactions list comes no later than row b: a later date,
\* or the same date and a later creation
ListedBefore(a, b) ==
    \/ a.tanggal # b.tanggal /\ NotAfter(ParseDate(b.tanggal)[1], ParseDate(a.tanggal)[1])
    \/ a.tanggal = b.tanggal /\ a.id > b.id

\* C22: when its queries succeed, the dashboard's daily series has exactly 7
\* points, point i (from 0) being the total of the day today - (6 - i), oldest
\* first; the recent-transactions list holds at most 10 transactions, the latest
\* of the user, ordered by date descending then creation time descending
C22_SeriesOfSevenDaysAndTenRecent ==
    \A p \in Procs :
        (DashDone(p) /\ req[p].failed = {} /\ req[p].failed_days = {})
        => LET series == body[p][1].pengeluaran_mingguan
               recent == body[p][1].transaksi_terakhir
           IN  /\ Len(series) = 7
               /\ \A i \in 0..6 :
                    series[i + 1].jumlah
                      = SumJumlah({t \in DashRows(p) : t.tanggal = DayBefore(req[p].now, 6 - i)})
               /\ Len(recent) <= 10
               /\ Len(recent) = 10 \/ Len(recent) = Cardinality(DashRows(p))
               /\ \A i \in 1..Len(recent) :
                    \E t \in DashRows(p) : /\ t.id = recent[i].id
                                           /\ t.jumlah = recent[i].jumlah
                                           /\ FormatDate(t.tanggal) = recent[i].tanggal
               /\ \A i, j \in 1..Len(recent) : i < j => ListedBefore(recent[i], recent[j])
               /\ \A t \in DashRows(p) :
                    (\A i \in 1..Len(recent) : recent[i].id # t.id)
                    => \A i \in 1..Len(recent) :
                         ListedBefore(recent[i], [id |-> t.id, tanggal |-> FormatDate(t.tanggal)])

\* a user with 11 transactions on two days of the week: the list holds 10 of them,
\* the series has the two days' totals at its second and third points
C22_Witness ==
    \E p \in Procs :
        /\ DashDone(p) /\ req[p].failed = {} /\ req[p].failed_days = {}
        /\ Cardinality(DashRows(p)) = 11
        /\ Len(body[p][1].transaksi_terakhir) = 10
        /\ body[p][1].pengeluaran_mingguan[2].jumlah = 36
        /\ body[p][1].pengeluaran_mingguan[3].jumlah = 30
        /\ body[p][1].pengeluaran_mingguan[7].jumlah = 0

\* v reports the query named q over what it computes, value: 0 when it failed
ReportedOrZero(p, q, v, value) == v = IF q \in req[p].failed THEN 0 ELSE value

\* the greatest amount of the rows T, 0 when there are none
GreatestOrZero(v, T) ==
    IF T = {} THEN v = 0
    ELSE (\E t \in T : t.jumlah = v) /\ (\A t \in T : t.jumlah <= v)

\* C23: whichever of its sub-queries fail, get_dashboard_data answers success;
\* each numeric sub-query that failed is reported as 0 and a failed
\* recent-transactions query as an empty list, and the sub-queries that succeeded
\* keep the values they compute
C23_FailedSubQueriesDefault ==
    \A p \in Procs :
        DashDone(p)
        => LET b == body[p][1] IN
           /\ resp[p] = OK
           /\ ReportedOrZero(p, "total_hari_ini", b.total_hari_ini, SumJumlah(DashToday(p)))
           /\ ReportedOrZero(p, "total_bulan_ini", b.total_bulan_ini, SumJumlah(DashMonth(p)))
           /\ IF "tertinggi_hari_ini" \in req[p].failed THEN b.tertinggi_hari_ini = 0
              ELSE GreatestOrZero(b.tertinggi_hari_ini, DashToday(p))
           /\ IF "tertinggi_bulan_ini" \in req[p].failed THEN b.tertinggi_bulan_ini = 0
              ELSE GreatestOrZero(b.tertinggi_bulan_ini, DashMonth(p))
           /\ IF "terendah_hari_ini" \in req[p].failed THEN b.terendah_hari_ini = 0
              ELSE LeastPositiveOrZero(b.terendah_hari_ini, DashToday(p))
           /\ IF "terendah_bulan_ini" \in req[p].failed THEN b.terendah_bulan_ini = 0
              ELSE LeastPositiveOrZero(b.terendah_bulan_ini, DashMonth(p))
           /\ Len(b.pengeluaran_mingguan) = 7
           /\ \A i \in req[p].failed_days : b.pengeluaran_mingguan[i + 1].jumlah = 0
           /\ IF "transaksi_terakhir" \in req[p].failed THEN b.transaksi_terakhir = <<>>
              ELSE \/ Len(b.transaksi_terakhir) = 10
                   \/ Len(b.transaksi_terakhir) = Cardinality(DashRows(p))

\* the total of today and the list failed and are 0 and empty, next to the
\* month's total, the highest and the lowest of today and today's point of the
\* series, which succeeded
C23_Witness ==
    \E p \in Procs :
        /\ DashDone(p)
        /\ req[p].failed = {"total_hari_ini", "transaksi_terakhir"}
        /\ req[p].failed_days = {0}
        /\ body[p][1].total_hari_ini = 0
        /\ body[p][1].transaksi_terakhir = <<>>
        /\ body[p][1].total_bulan_ini = 10
        /\ body[p][1].tertinggi_hari_ini = 7
        /\ body[p][1].terendah_hari_ini = 7
        /\ body[p][1].pengeluaran_mingguan[7].jumlah = 7

\* the database with the transactions of every user but u taken out
OwnLedger(u) == [DB EXCEPT !.transaksi = OfUser(transaksi, u)]

\* C26: the dashboard returned for a user depends on that user's own
\* transactions only: it is the one returned when no other user has any
\* transaction, and for a user without transactions all its values are 0 and its
\* list is empty
C26_DashboardOfOwnTransactionsOnly ==
    \A p \in Procs :
        DashDone(p)
        => /\ body[p] = get_dashboard_data(OwnLedger(req[p].user_id), req[p]).body
           /\ OfUser(transaksi, req[p].user_id) = {}
              => /\ body[p][1].total_hari_ini = 0
                 /\ body[p][1].total_bulan_ini = 0
                 /\ body[p][1].tertinggi_hari_ini = 0
                 /\ body[p][1].tertinggi_bulan_ini = 0
                 /\ body[p][1].terendah_hari_ini = 0
                 /\ body[p][1].terendah_bulan_ini = 0
                 /\ \A i \in 1..7 : body[p][1].pengeluaran_mingguan[i].jumlah = 0
                 /\ body[p][1].transaksi_terakhir = <<>>

AnalyticsDone(p) ==
    pc[p] = "done" /\ req[p].op \in {"get_user_statistik", "get_dashboard_data"}

\* C24: the analytics are independent of the budgets: the same request, served
\* over the same ledger at the same date before and after budget rows were
\* created, edited or deleted, gets the same response, and serving an analytics
\* request changes neither the ledger nor any budget
C24_AnalyticsIndependentOfBudgets ==
    /\ [](\A p, q \in Procs :
            (AnalyticsDone(p) /\ AnalyticsDone(q) /\ req[p] = req[q])
            => resp[p] = resp[q] /\ body[p] = body[q])
    /\ [][(\E p \in Procs : pc[p] = "idle" /\ pc'[p] = "done")
          => UNCHANGED <<transaksi, budgets, seqT, seqB>>]_vars

\* the same request answered over the same ledger, with spending in it, before
\* and after the budgets changed to a budget with a spent
C24_Witness ==
    /\ AnalyticsDone("p1") /\ AnalyticsDone("p2") /\ req["p1"] = req["p2"]
    /\ transaksi = base.transaksi
    /\ budgets # base.budgets
    /\ \E b \in budgets : b.user_id = req["p1"].user_id /\ b.spent = Some(3)
    /\ req["p1"].op = "get_user_statistik"
    /\ body["p1"][1].ringkasan.total_pengeluaran > 0

\* C25: a transaction's amount is subtracted from its budget at most once: after
\* two delete_transaksi requests for the same transaction that ran concurrently
\* and both succeeded, the budget's spent is lower by the amount once (floored at
\* 0) and every other budget is unchanged
C25_DeleteSubtractsAtMostOnce ==
    \A p, q \in Procs :
        (/\ p # q
         /\ pc[p] = "done" /\ pc[q] = "done"
         /\ req[p].op = "delete_transaksi" /\ req[q] = req[p]
         /\ resp[p] = OK /\ resp[q] = OK)
        => LET r == req[p]
               A == OldRow(r).jumlah
               f(b) == IF Hits(r, b, OldRow(r).kategori_id)
                       THEN Some(Greatest(Coalesce(b.spent, 0) - A, 0))
                       ELSE b.spent
           IN  SpentBecomes(base.budgets, budgets, f)

\* the sum of the totals of a breakdown
BreakdownSum(rows) ==
    SumJumlah({[id |-> i, jumlah |-> rows[i].total_pengeluaran] : i \in 1..Len(rows)})

\* C27: within one get_user_statistik response the per-category totals of the
\* breakdown add up to the summary's total spend and no category's percentage
\* exceeds 100, also when transaction requests commit while the statistics
\* request is served, every transaction being of a category of the directory
C27_BreakdownAddsUpToTotal ==
    \A p \in Procs :
        (StatDone(p) /\ resp[p] = OK)
        => /\ BreakdownSum(body[p][1].pengeluaran_per_kategori)
                = body[p][1].ringkasan.total_pengeluaran
           /\ \A i \in 1..Len(body[p][1].pengeluaran_per_kategori) :
                body[p][1].pengeluaran_per_kategori[i].persentase <= 10000

\* the rows of the user that satisfy every filter the query supplies
Filtered(T, user, query) ==
    {t \in T :
        /\ t.user_id = user
        /\ IsSome(query.kategori_id) => t.kategori_id = query.kategori_id[1]
        /\ IsSome(query.start_date) => NotAfter(ParseDate(query.start_date[1])[1], t.tanggal)
        /\ IsSome(query.end_date) => NotAfter(t.tanggal, ParseDate(query.end_date[1])[1])}

\* C28: for every combination of the filters kategori_id, start_date, end_date
\* (dates that parse) with limit and offset, get_user_transaksi returns exactly the
\* user's transactions that satisfy all the supplied filters, ordered by date
\* descending then creation descending, without the first offset rows and at most
\* limit (default 50) of them
C28_ListingAppliesEveryFilter ==
    \A p \in Procs :
        (/\ pc[p] = "done" /\ req[p].op = "get_user_transaksi"
         /\ IsSome(req[p].query.start_date) => ParseDate(req[p].query.start_date[1]) # None
         /\ IsSome(req[p].query.end_date) => ParseDate(req[p].query.end_date[1]) # None)
        => LET q == req[p].query
               rows == Filtered(transaksi, req[p].user_id, q)
               limit == Coalesce(q.limit, 50)
               offset == Coalesce(q.offset, 0)
           IN  /\ resp[p] = OK
               /\ Len(body[p][1]) <= limit
               /\ Len(body[p][1]) = Cardinality(rows) - offset
                  \/ Len(body[p][1]) = limit
                  \/ (Len(body[p][1]) = 0 /\ Cardinality(rows) <= offset)
               /\ \A i \in 1..Len(body[p][1]) :
                    /\ \E t \in rows : t.id = body[p][1][i].id
                    /\ Cardinality({t \in rows : RecentBefore(t, body[p][1][i])}) = offset + i - 1

\* the id of the row a ledger request writes: the fresh one for a create
TargetId(r) == IF r.op = "create_transaksi" THEN base.seqT ELSE r.id

\* the categories whose budget a ledger request may touch: the row's old one
\* and its new one
TouchedCategories(r) ==
    (IF r.op = "create_transaksi" THEN {} ELSE {OldRow(r).kategori_id})
    \cup (IF r.op = "delete_transaksi" THEN {}
          ELSE IF r.op = "create_transaksi" THEN {r.payload.kategori_id}
          ELSE IF IsSome(r.payload.kategori_id) THEN {r.payload.kategori_id[1]}
          ELSE {})

\* C29: a successful create, update or delete of a transaction by user U changes
\* no budget other than U's budgets of the transaction's old and new category -
\* the budgets of other users and of U's other categories are as they were, none
\* is added or removed - and no transaction row other than the one it writes
C29_MutationTouchesOwnBudgetsOnly ==
    \A p \in Procs :
        (pc[p] = "done" /\ Ledger(req[p].op) /\ resp[p] = OK)
        => LET r == req[p] IN
           /\ {b.id : b \in budgets} = {b.id : b \in base.budgets}
           /\ Cardinality(budgets) = Cardinality(base.budgets)
           /\ \A b \in base.budgets :
                (b.user_id # r.user_id \/ b.kategori_id \notin TouchedCategories(r))
                => b \in budgets
           /\ \A b \in base.budgets :
                \E c \in budgets : c = [b EXCEPT !.spent = c.spent]
           /\ \A t \in base.transaksi : t.id # TargetId(r) => t \in transaksi
           /\ \A t \in transaksi : t.id # TargetId(r) => t \in base.transaksi

\* an update of u1 moves a row between two categories both users have budgets
\* for: u1's two budgets change, u2's two do not
C29_Witness ==
    \E p \in Procs :
        /\ pc[p] = "done" /\ req[p].op = "update_transaksi" /\ resp[p] = OK
        /\ req[p].user_id = "u1"
        /\ Cardinality(TouchedCategories(req[p])) = 2
        /\ \A k \in TouchedCategories(req[p]) :
            /\ \E b \in base.budgets : b.user_id = "u1" /\ b.kategori_id = k /\ b \notin budgets
            /\ \E b \in base.budgets : b.user_id = "u2" /\ b.kategori_id = k /\ b \in budgets
        /\ \E t \in base.transaksi : t.user_id = "u2"

\* C30: for every supplied year and month, months outside 1..12 included, the
\* statistics request ends in a response, a resolved window or an error, and the
\* handler is never aborted; for month 12 of year Y with no explicit end the
\* window's last day is 31 December of Y
C30_EveryMonthValueIsAnswered ==
    \A p \in Procs :
        StatDone(p)
        => /\ resp[p] # 0
           /\ (/\ MonthlyUnbounded(req[p])
               /\ TargetMonth(req[p]) = 12
               /\ ~(req[p].now.year = TargetYear(req[p]) /\ req[p].now.month = 12))
              => WindowOf(p).end = Date(TargetYear(req[p]), 12, 31)

====
